---- MODULE Spec2Model ----
(***************************************************************************)
(* A model of the spreadsheet-to-relational import layer of the regional   *)
(* sales application: the value coercion helpers of the two management     *)
(* commands (import_raw, import_excel), the per-platform raw order         *)
(* importers with their date-range clearing, and the workbook importer.    *)
(*                                                                         *)
(* Text is modelled as a sequence of one-character strings, so that the    *)
(* coercions are computed character by character as the code computes      *)
(* them.  A calendar date is a record [y, m, d].  A Decimal is a record    *)
(* [coef, scale] standing for coef / 10^scale.                             *)
(***************************************************************************)
EXTENDS Integers, Sequences, FiniteSets, Bags, TLC

VARIABLES
    fnIn,     \* the last call of a coercion helper: which helper, its argument
    fnOut,    \* what that call returned
    db,       \* the committed database: the order tables and the aggregate tables
    last,     \* the last import command run: its input, the state before it, its effects
    calls,    \* number of import commands run so far
    txns      \* concurrent import transactions in flight (concurrency specification)

vars == <<fnIn, fnOut, db, last, calls, txns>>

\* Python's None (and pandas' NaN for an empty cell).
None == [t |-> "none"]

(***************************************************************************)
(* Characters and text                                                     *)
(***************************************************************************)
DigitChars == <<"0", "1", "2", "3", "4", "5", "6", "7", "8", "9">>

IsDigit(c) == \E i \in 1..10 : DigitChars[i] = c

DigitVal(c) == (CHOOSE i \in 1..10 : DigitChars[i] = c) - 1

\* str.isspace for the characters that occur in cells
IsSpace(c) == c \in {" ", "\t", "\n"}

RECURSIVE LStrip(_)
LStrip(s) == IF s # <<>> /\ IsSpace(Head(s)) THEN LStrip(Tail(s)) ELSE s

RECURSIVE RStrip(_)
RStrip(s) ==
    IF s # <<>> /\ IsSpace(s[Len(s)]) THEN RStrip(SubSeq(s, 1, Len(s) - 1)) ELSE s

\* str.strip()
Strip(s) == RStrip(LStrip(s))

\* str.replace(c, '') for a single character c
RemoveChar(s, c) == SelectSeq(s, LAMBDA x : x # c)

\* str.split(c)[0]: the text before the first occurrence of c
RECURSIVE BeforeChar(_, _)
BeforeChar(s, c) ==
    IF s = <<>> \/ Head(s) = c THEN <<>> ELSE <<Head(s)>> \o BeforeChar(Tail(s), c)

\* needle in haystack (substring test)
Contains(hay, needle) ==
    \E i \in 1..(Len(hay) - Len(needle) + 1) :
        SubSeq(hay, i, i + Len(needle) - 1) = needle

\* re.sub(r'\s*-\d{4}$', '', s): a trailing "-dddd" goes, with the blanks before it
StripOffsetSuffix(s) ==
    LET n == Len(s) IN
    IF n >= 5 /\ s[n - 4] = "-" /\ \A k \in (n - 3)..n : IsDigit(s[k])
    THEN RStrip(SubSeq(s, 1, n - 5))
    ELSE s

(***************************************************************************)
(* datetime.strptime                                                       *)
(*                                                                         *)
(* A format is a sequence of tokens: the directives "Y" "m" "d" "H" "I"    *)
(* "M" "S" "p", "sp" for a blank of the format (which matches one or more  *)
(* blanks), and any other token is a literal character.                    *)
(***************************************************************************)
NoMatch == [t |-> "nomatch"]

IsLeap(y) == (y % 4 = 0 /\ y % 100 # 0) \/ y % 400 = 0

DaysInMonth(y, m) ==
    IF m = 2 THEN (IF IsLeap(y) THEN 29 ELSE 28)
    ELSE IF m \in {4, 6, 9, 11} THEN 30 ELSE 31

\* Largest value a two-digit directive accepts, and whether it accepts zero.
FieldMax(tok) ==
    CASE tok = "m" -> 12 [] tok = "d" -> 31 [] tok = "H" -> 23
      [] tok = "I" -> 12 [] tok = "M" -> 59 [] tok = "S" -> 61

FieldMin(tok) == IF tok \in {"m", "d", "I"} THEN 1 ELSE 0

\* Number of characters of s from position i that the directive consumes (0: none).
\* Two digits are taken when they form an accepted value, else one digit; %d also
\* accepts a blank followed by a digit 1-9.
FieldLen(s, i, tok) ==
    LET two == i + 1 <= Len(s) /\ IsDigit(s[i]) /\ IsDigit(s[i + 1])
        v2  == 10 * DigitVal(s[i]) + DigitVal(s[i + 1])
    IN  IF two /\ v2 >= FieldMin(tok) /\ v2 <= FieldMax(tok) THEN 2
        ELSE IF i <= Len(s) /\ IsDigit(s[i]) /\ DigitVal(s[i]) >= FieldMin(tok) THEN 1
        ELSE IF tok = "d" /\ i + 1 <= Len(s) /\ s[i] = " " /\ IsDigit(s[i + 1])
                /\ DigitVal(s[i + 1]) >= 1 THEN 2
        ELSE 0

FieldVal(s, i, n) ==
    IF n = 1 THEN DigitVal(s[i])
    ELSE IF s[i] = " " THEN DigitVal(s[i + 1])
    ELSE 10 * DigitVal(s[i]) + DigitVal(s[i + 1])

RECURSIVE BlankRun(_, _)
BlankRun(s, i) == IF i <= Len(s) /\ IsSpace(s[i]) THEN 1 + BlankRun(s, i + 1) ELSE 0

RECURSIVE StrpMatch(_, _, _, _, _)
StrpMatch(s, i, fmt, j, acc) ==
    IF j > Len(fmt) THEN (IF i > Len(s) THEN acc ELSE NoMatch)
    ELSE LET tok == fmt[j] IN
        CASE tok = "Y" ->
                IF i + 3 <= Len(s) /\ \A k \in i..(i + 3) : IsDigit(s[k])
                THEN StrpMatch(s, i + 4, fmt, j + 1,
                        [acc EXCEPT !.y = 1000 * DigitVal(s[i]) + 100 * DigitVal(s[i + 1])
                                          + 10 * DigitVal(s[i + 2]) + DigitVal(s[i + 3])])
                ELSE NoMatch
          [] tok \in {"m", "d", "H", "I", "M", "S"} ->
                LET n == FieldLen(s, i, tok) IN
                IF n = 0 THEN NoMatch
                ELSE StrpMatch(s, i + n, fmt, j + 1,
                        IF tok = "m" THEN [acc EXCEPT !.m = FieldVal(s, i, n)]
                        ELSE IF tok = "d" THEN [acc EXCEPT !.d = FieldVal(s, i, n)]
                        ELSE acc)
          [] tok = "sp" ->
                LET n == BlankRun(s, i) IN
                IF n = 0 THEN NoMatch ELSE StrpMatch(s, i + n, fmt, j + 1, acc)
          [] tok = "p" ->
                IF i + 1 <= Len(s) /\ s[i] \in {"A", "P", "a", "p"} /\ s[i + 1] \in {"M", "m"}
                THEN StrpMatch(s, i + 2, fmt, j + 1, acc)
                ELSE NoMatch
          [] OTHER ->
                IF i <= Len(s) /\ s[i] = tok
                THEN StrpMatch(s, i + 1, fmt, j + 1, acc)
                ELSE NoMatch

\* datetime.strptime(s, fmt).date(), or NoMatch where strptime raises ValueError
Strptime(s, fmt) ==
    LET r == StrpMatch(s, 1, fmt, 1, [y |-> 1900, m |-> 1, d |-> 1]) IN
    IF r = NoMatch THEN NoMatch
    ELSE IF r.y < 1 \/ r.d > DaysInMonth(r.y, r.m) THEN NoMatch
    ELSE r

\* The first format of fmts that s matches decides; None when none does.
RECURSIVE TryFormats(_, _)
TryFormats(s, fmts) ==
    IF fmts = <<>> THEN None
    ELSE LET r == Strptime(s, Head(fmts)) IN
         IF r # NoMatch THEN r ELSE TryFormats(s, Tail(fmts))

F_Ymd    == <<"Y", "-", "m", "-", "d">>
F_YmdHMS == <<"Y", "-", "m", "-", "d", "sp", "H", ":", "M", ":", "S">>
F_mdY    == <<"m", "/", "d", "/", "Y">>
F_mdYHMS == <<"m", "/", "d", "/", "Y", "sp", "H", ":", "M", ":", "S">>
F_mdYIMSp == <<"m", "/", "d", "/", "Y", "sp", "I", ":", "M", ":", "S", "sp", "p">>
F_dmY    == <<"d", "-", "m", "-", "Y">>
F_dmYHM  == <<"d", "-", "m", "-", "Y", "sp", "H", ":", "M">>

\* import_raw.safe_date: the formats in the order they are tried
RawDateFormats == <<F_YmdHMS, F_Ymd, F_mdYIMSp, F_mdYHMS, F_mdY, F_dmYHM, F_dmY>>

\* import_excel.safe_date: the formats in the order they are tried
ExcelDateFormats == <<F_Ymd, F_mdY, F_YmdHMS>>

(***************************************************************************)
(* Cells.  A cell is None (absent, empty, NaN), a typed date read by the   *)
(* spreadsheet reader, a typed number, or text.                            *)
(***************************************************************************)
DtCell(d)  == [t |-> "dt", d |-> d]
StrCell(s) == [t |-> "str", s |-> s]
NumCell(c, k) == [t |-> "num", coef |-> c, scale |-> k]

\* import_raw.safe_date
RawSafeDate(val) ==
    IF val = None THEN None
    ELSE IF val.t = "dt" THEN val.d
    ELSE IF val.t # "str" THEN None
    ELSE LET s == Strip(RemoveChar(val.s, "\t")) IN
         IF s = <<>> THEN None
         ELSE TryFormats(StripOffsetSuffix(Strip(BeforeChar(s, "+"))), RawDateFormats)

\* import_excel.safe_date
ExcelSafeDate(val) ==
    IF val = None THEN None
    ELSE IF val.t = "dt" THEN val.d
    ELSE IF val.t = "str" THEN TryFormats(Strip(BeforeChar(val.s, "+")), ExcelDateFormats)
    ELSE None

(***************************************************************************)
(* Decimal                                                                 *)
(***************************************************************************)
RECURSIVE DigitsVal(_)
DigitsVal(ds) ==
    IF ds = <<>> THEN 0 ELSE 10 * DigitsVal(SubSeq(ds, 1, Len(ds) - 1)) + DigitVal(ds[Len(ds)])

RECURSIVE Pow10(_)
Pow10(k) == IF k = 0 THEN 1 ELSE 10 * Pow10(k - 1)

AllDigits(ds) == \A k \in 1..Len(ds) : IsDigit(ds[k])

\* The text after the first occurrence of c (empty when c does not occur)
RECURSIVE AfterChar(_, _)
AfterChar(s, c) ==
    IF s = <<>> THEN <<>> ELSE IF Head(s) = c THEN Tail(s) ELSE AfterChar(Tail(s), c)

\* Decimal(text): an optional sign, digits with at most one point, blanks around
\* it ignored; NoMatch where the constructor raises InvalidOperation.  (Exponents
\* and the words Infinity and NaN do not occur in the cells modelled.)
DecimalParse(s) ==
    LET u     == Strip(s)
        neg   == u # <<>> /\ Head(u) = "-"
        body  == IF u # <<>> /\ Head(u) \in {"-", "+"} THEN Tail(u) ELSE u
        ip    == BeforeChar(body, ".")
        fp    == AfterChar(body, ".")
    IN  IF AllDigits(ip) /\ AllDigits(fp) /\ Len(ip) + Len(fp) > 0
        THEN [coef  |-> (IF neg THEN -1 ELSE 1) * DigitsVal(ip \o fp),
              scale |-> Len(fp)]
        ELSE NoMatch

\* A Python int, as the default argument of a coercion helper
IntVal(n) == [t |-> "int", v |-> n]

\* Decimal(str(default)) if default is not None else None
DefaultDecimal(default) ==
    IF default = None THEN None ELSE [coef |-> default.v, scale |-> 0]

\* import_raw.safe_decimal
RawSafeDecimal(val, default) ==
    IF val = None \/ val = StrCell(<<>>) \/ val = StrCell(<<"-">>)
    THEN DefaultDecimal(default)
    ELSE IF val.t = "num" THEN [coef |-> val.coef, scale |-> val.scale]
    ELSE IF val.t # "str" THEN DefaultDecimal(default)
    ELSE LET cleaned == Strip(RemoveChar(RemoveChar(RemoveChar(val.s, ","), "$"), "\t")) IN
         IF cleaned = <<>> \/ cleaned = <<"-">> THEN DefaultDecimal(default)
         ELSE LET r == DecimalParse(cleaned) IN
              IF r = NoMatch THEN DefaultDecimal(default) ELSE r

DivZeroText == <<"#", "D", "I", "V", "/", "0", "!">>

\* import_excel.safe_decimal
ExcelSafeDecimal(val, default) ==
    IF val = None \/ val = StrCell(<<>>) \/ val = StrCell(DivZeroText)
    THEN DefaultDecimal(default)
    ELSE IF val.t = "num" THEN [coef |-> val.coef, scale |-> val.scale]
    ELSE IF val.t # "str" THEN DefaultDecimal(default)
    ELSE LET r == DecimalParse(val.s) IN
         IF r = NoMatch THEN DefaultDecimal(default) ELSE r

\* Numeric equality of two results (None equals only None)
DecEq(a, b) ==
    IF a = None \/ b = None THEN a = b
    ELSE LET k == IF a.scale > b.scale THEN a.scale ELSE b.scale IN
         a.coef * Pow10(k - a.scale) = b.coef * Pow10(k - b.scale)

(***************************************************************************)
(* The texts the coercion helpers are exercised on                         *)
(***************************************************************************)
Fmt2(n) == <<DigitChars[(n \div 10) + 1], DigitChars[(n % 10) + 1]>>

Fmt4(n) == Fmt2(n \div 100) \o Fmt2(n % 100)

DateLayouts ==
    {"Ymd", "YmdHMS", "mdY", "mdYHM", "mdYHMS", "mdYHMSp", "dmY", "dmYHM"}

\* The date d written in a layout, at 14:30:05 where the layout has a time
FormatDate(d, layout) ==
    LET ymd == Fmt4(d.y) \o <<"-">> \o Fmt2(d.m) \o <<"-">> \o Fmt2(d.d)
        mdy == Fmt2(d.m) \o <<"/">> \o Fmt2(d.d) \o <<"/">> \o Fmt4(d.y)
        dmy == Fmt2(d.d) \o <<"-">> \o Fmt2(d.m) \o <<"-">> \o Fmt4(d.y)
        hm  == <<" ", "1", "4", ":", "3", "0">>
        hms == hm \o <<":", "0", "5">>
    IN  CASE layout = "Ymd"     -> ymd
          [] layout = "YmdHMS"  -> ymd \o hms
          [] layout = "mdY"     -> mdy
          [] layout = "mdYHM"   -> mdy \o hm
          [] layout = "mdYHMS"  -> mdy \o hms
          [] layout = "mdYHMSp" -> mdy \o <<" ", "0", "2", ":", "3", "0", ":", "0", "5", " ", "P", "M">>
          [] layout = "dmY"     -> dmy
          [] layout = "dmYHM"   -> dmy \o hm

\* No suffix, a '+...' timezone suffix, a '-HHMM' offset suffix
DateSuffixes ==
    {<<>>, <<"+", "0", "9", ":", "0", "0">>, <<" ", "-", "0", "5", "0", "0">>}

SampleDates ==
    {[y |-> 2026, m |-> 3, d |-> 15], [y |-> 2026, m |-> 1, d |-> 2],
     [y |-> 2025, m |-> 12, d |-> 31], [y |-> 2024, m |-> 2, d |-> 29]}

\* The two syllables of the totals label of the P&L sheets
TotalsMarker == <<"hap", "gye">>

\* Texts in no supported format
UnparseableTexts ==
    {<<>>, <<" ">>, TotalsMarker, <<"a", "b", "c">>,
     <<"2", "0", "2", "6", "-", "1", "3", "-", "0", "1">>,
     <<"0", "2", "/", "3", "0", "/", "2", "0", "2", "6">>,
     <<"2", "0", "2", "6", "0", "3", "1", "5">>}

\* A call's argument with the calendar date written in it (None: unparseable)
DateInputs ==
    {[arg |-> StrCell(FormatDate(d, l) \o sfx), layout |-> l, sfx |-> sfx, date |-> d] :
        d \in SampleDates, l \in DateLayouts, sfx \in DateSuffixes}
    \cup {[arg |-> StrCell(s), layout |-> "none", sfx |-> <<>>, date |-> None] :
            s \in UnparseableTexts}
    \cup {[arg |-> None, layout |-> "none", sfx |-> <<>>, date |-> None]}

RECURSIVE FormatInt(_)
FormatInt(n) ==
    IF n < 10 THEN <<DigitChars[n + 1]>>
    ELSE FormatInt(n \div 10) \o <<DigitChars[(n % 10) + 1]>>

\* Thousands separators: a comma before every group of three digits
RECURSIVE WithCommas(_)
WithCommas(ds) ==
    IF Len(ds) <= 3 THEN ds
    ELSE WithCommas(SubSeq(ds, 1, Len(ds) - 3)) \o <<",">> \o SubSeq(ds, Len(ds) - 2, Len(ds))

SampleUnits == {0, 7, 1234, 1234567}
SampleCents == {-1, 0, 5, 50}   \* -1: no fractional part written

\* A decimal-like text: currency symbol, grouped integer part, fractional part
FormatAmount(units, cents, grouped, symbol) ==
    symbol \o (IF grouped THEN WithCommas(FormatInt(units)) ELSE FormatInt(units))
           \o (IF cents < 0 THEN <<>> ELSE <<".">> \o Fmt2(cents))

AmountValue(units, cents) ==
    IF cents < 0 THEN [coef |-> units, scale |-> 0]
    ELSE [coef |-> 100 * units + cents, scale |-> 2]

SampleDefaults == {None, IntVal(0), IntVal(1446)}

\* A call's argument with the number written in it (None: nothing to parse)
DecimalInputs ==
    {[arg |-> StrCell(FormatAmount(u, c, g, sym)), value |-> AmountValue(u, c),
      grouped |-> g, symbol |-> sym] :
        u \in SampleUnits, c \in SampleCents, g \in BOOLEAN, sym \in {<<>>, <<"$">>}}
    \cup {[arg |-> a, value |-> None, grouped |-> FALSE, symbol |-> <<>>] :
            a \in {None, StrCell(<<>>), StrCell(DivZeroText)}}

(***************************************************************************)
(* Python values and the database                                          *)
(***************************************************************************)
\* bool(val) for a cell: None and the empty text are false
Truthy(val) == val # None /\ ~(val.t = "str" /\ val.s = <<>>)

\* a or b
PyOr(a, b) == IF Truthy(a) THEN a ELSE b

\* import_raw.safe_str: None gives '', otherwise the text without tabs, stripped
RawSafeStr(val) ==
    IF val = None THEN <<>>
    ELSE IF val.t = "str" THEN Strip(RemoveChar(val.s, "\t"))
    ELSE IF val.t = "num" /\ val.scale = 0 /\ val.coef >= 0 THEN FormatInt(val.coef)
    ELSE <<"?">>

UpperChars ==
    <<"A", "B", "C", "D", "E", "F", "G", "H", "I", "J", "K", "L", "M",
      "N", "O", "P", "Q", "R", "S", "T", "U", "V", "W", "X", "Y", "Z">>

LowerChars ==
    <<"a", "b", "c", "d", "e", "f", "g", "h", "i", "j", "k", "l", "m",
      "n", "o", "p", "q", "r", "s", "t", "u", "v", "w", "x", "y", "z">>

IsUpper(c) == \E i \in 1..26 : UpperChars[i] = c

IsLower(c) == \E i \in 1..26 : LowerChars[i] = c

IsLetter(c) == IsUpper(c) \/ IsLower(c)

\* str.lower(), str.upper()
ToLower(s) ==
    [i \in 1..Len(s) |->
        IF IsUpper(s[i]) THEN LowerChars[CHOOSE k \in 1..26 : UpperChars[k] = s[i]] ELSE s[i]]

ToUpper(s) ==
    [i \in 1..Len(s) |->
        IF IsLower(s[i]) THEN UpperChars[CHOOSE k \in 1..26 : LowerChars[k] = s[i]] ELSE s[i]]

\* str.startswith
StartsWith(s, prefix) == Len(s) >= Len(prefix) /\ SubSeq(s, 1, Len(prefix)) = prefix

\* Brand names written in Korean, one token per syllable
KrDoctorblet == <<"dak", "teo", "beul", "lit">>
KrNothingbetter == <<"nat", "tting", "be", "reol">>
KrTetracure == <<"te", "teu", "ra", "kyu", "eo">>

DateLE(a, b) ==
    \/ a.y < b.y
    \/ a.y = b.y /\ a.m < b.m
    \/ a.y = b.y /\ a.m = b.m /\ a.d <= b.d

\* min(dates), max(dates) of a non-empty set of dates
MinDate(S) == CHOOSE a \in S : \A b \in S : DateLE(a, b)

MaxDate(S) == CHOOSE a \in S : \A b \in S : DateLE(b, a)

\* A table without a uniqueness constraint is a bag of rows.
BagFilter(B, P(_)) == [r \in {x \in DOMAIN B : P(x)} |-> B[r]]

RECURSIVE SeqToBag(_)
SeqToBag(s) == IF s = <<>> THEN EmptyBag ELSE SetToBag({Head(s)}) (+) SeqToBag(Tail(s))

\* The rows of a sequence that pass, each mapped (a loop with 'continue')
MapSeq(s, Make(_)) == [i \in 1..Len(s) |-> Make(s[i])]

MapSelect(s, Keep(_), Make(_)) == MapSeq(SelectSeq(s, Keep), Make)

Platforms == {"shopify", "tiktok", "shopee", "qoo10"}

EmptyDb ==
    [orders |-> [p \in Platforms |-> EmptyBag],
     total |-> {}, b2b |-> {}, b2c |-> {}, brandSales |-> {},
     tax |-> {}, rate |-> {}, brand |-> {}]

(***************************************************************************)
(* import_raw: file name helpers                                           *)
(***************************************************************************)
\* Position of the first run of eight digits of s (0: none)
FirstDigitRun8(s) ==
    LET starts == {i \in 1..(Len(s) - 7) : \A k \in i..(i + 7) : IsDigit(s[k])} IN
    IF starts = {} THEN 0 ELSE CHOOSE i \in starts : \A j \in starts : i <= j

\* import_raw.extract_date_from_filename: the first eight-digit run read as
\* YYYYMMDD; None when there is none or it is no date
ExtractDateFromFilename(filename) ==
    LET i == FirstDigitRun8(filename) IN
    IF i = 0 THEN None
    ELSE LET r == Strptime(SubSeq(filename, i, i + 7), <<"Y", "m", "d">>) IN
         IF r = NoMatch THEN None ELSE r

(***************************************************************************)
(* The files the raw importers are run on                                  *)
(***************************************************************************)
MaxRows == 2     \* data rows per file or sheet
MaxCalls == 2    \* import commands per behaviour

SeqsUpTo(S, n) == UNION {[1..k -> S] : k \in 0..n}

Day(k) == [y |-> 2026, m |-> 3, d |-> k]

Days == {Day(1), Day(2), Day(3)}

DayText(d) == FormatDate(d, "Ymd")

Txt(s) == StrCell(s)

Empty == StrCell(<<>>)

ShopifyRowUniverse ==
    {[paid |-> Txt(DayText(d)), created |-> Empty, name |-> Txt(n), vendor |-> Empty,
      total |-> Txt(<<"1", "0">>), subtotal |-> Empty, lineitem |-> Txt(<<"A">>)] :
        d \in Days, n \in {<<"#", "1">>, <<>>}}
    \cup {[paid |-> Empty, created |-> Txt(DayText(Day(1))), name |-> Txt(<<"#", "2">>),
           vendor |-> Txt(<<"C", "a", "l", "o">>), total |-> Empty,
           subtotal |-> Txt(<<"5">>), lineitem |-> Txt(<<"B">>)],
          [paid |-> Empty, created |-> Empty, name |-> Txt(<<"#", "3">>), vendor |-> Empty,
           total |-> Txt(<<"1", "0">>), subtotal |-> Empty, lineitem |-> Txt(<<"A">>)]}

TiktokRowUniverse ==
    {[created |-> Txt(DayText(d)), paid |-> Empty, order_id |-> Txt(id), sku |-> Empty,
      product |-> Txt(<<"x">>), sku_subtotal |-> Txt(<<"1", "0">>), order_amount |-> Empty,
      unit_price |-> Empty, refund |-> Empty] :
        d \in Days, id \in {<<"7", "7">>, <<>>}}
    \cup {[created |-> Empty, paid |-> Txt(DayText(Day(1))), order_id |-> Txt(<<"7", "8">>),
           sku |-> Txt(<<"d", "r", "-", "1">>), product |-> Txt(<<"x">>),
           sku_subtotal |-> Empty, order_amount |-> Txt(<<"5">>),
           unit_price |-> Txt(<<"5">>), refund |-> Empty],
          [created |-> Empty, paid |-> Empty, order_id |-> Txt(<<"7", "9">>), sku |-> Empty,
           product |-> Txt(<<"x">>), sku_subtotal |-> Txt(<<"1", "0">>),
           order_amount |-> Empty, unit_price |-> Empty, refund |-> Empty]}

YmdDigits(d) == Fmt4(d.y) \o Fmt2(d.m) \o Fmt2(d.d)

ShopeeFilenames ==
    {<<"_", "e", "o", "a", ".", "s", "g", ".", "s", "h", "o", "p", "e", "e", ".">> \o sfx :
        sfx \in {YmdDigits(Day(1)), YmdDigits(Day(2)), <<"x">>}}

\* The data row of the 'Placed Order' sheet: none, one dated 01-03-2026, and one
\* dated month first, 03-15-2026
ShopeePlacedRows ==
    {None,
     [date |-> Txt(<<"0", "1", "-", "0", "3", "-", "2", "0", "2", "6">>),
      sales |-> NumCell(10, 0), orders |-> NumCell(1, 0), refunded |-> None],
     [date |-> Txt(<<"0", "3", "-", "1", "5", "-", "2", "0", "2", "6">>),
      sales |-> NumCell(10, 0), orders |-> NumCell(1, 0), refunded |-> None]}

ShopeeProductUniverse ==
    {[item_id |-> NumCell(11, 0), product |-> Txt(<<"P">>), sales |-> NumCell(5, 0),
      units |-> NumCell(1, 0)],
     [item_id |-> Txt(<<"i", "d">>), product |-> Txt(<<"P">>), sales |-> None,
      units |-> None]}

ShopeeFiles ==
    {[filename |-> f, placed |-> p, placed_products |-> ps, paid_products |-> qs] :
        f \in ShopeeFilenames, p \in ShopeePlacedRows,
        ps \in SeqsUpTo(ShopeeProductUniverse, MaxRows),
        qs \in SeqsUpTo({[item_id |-> NumCell(11, 0), product |-> Txt(<<"P">>),
                          sales |-> NumCell(5, 0), units |-> NumCell(1, 0)]}, 1)}

Qoo10Filenames ==
    {<<"t", "r", "a", "n", "s", "a", "c", "t", "i", "o", "n", "_">> \o sfx :
        sfx \in {YmdDigits(Day(1)), YmdDigits(Day(2)), <<"x">>}}

Qoo10RowUniverse ==
    {[product_id |-> Txt(<<"9", "1">>), brand |-> Txt(<<"d", "r", "b", "l", "e", "t", "/", "x">>),
      final |-> Txt(<<"1", "0">>), amount |-> Txt(<<"1", "0">>), refund |-> Empty],
     [product_id |-> Txt(<<"9", "2">>), brand |-> None,
      final |-> None, amount |-> Txt(<<"5">>), refund |-> None],
     [product_id |-> None, brand |-> Txt(<<"x">>),
      final |-> Txt(<<"1", "0">>), amount |-> Txt(<<"1", "0">>), refund |-> Empty]}

Qoo10Files ==
    {[filename |-> f, has_data_sheet |-> TRUE, rows |-> rs] :
        f \in Qoo10Filenames, rs \in SeqsUpTo(Qoo10RowUniverse, MaxRows)}
    \cup {[filename |-> f, has_data_sheet |-> FALSE, rows |-> <<>>] : f \in Qoo10Filenames}

RawFiles(platform) ==
    CASE platform = "shopify" -> SeqsUpTo(ShopifyRowUniverse, MaxRows)
      [] platform = "tiktok"  -> SeqsUpTo(TiktokRowUniverse, MaxRows)
      [] platform = "shopee"  -> ShopeeFiles
      [] platform = "qoo10"   -> Qoo10Files

(***************************************************************************)
(* import_raw: helpers of the Excel importers                              *)
(***************************************************************************)
IsWordChar(c) == IsLetter(c) \/ IsDigit(c) \/ c = "_"

RECURSIVE LetterRun(_, _)
\* Length of the run of letters ([a-zA-Z]+) from position i of s
LetterRun(s, i) ==
    IF i > Len(s) \/ ~IsLetter(s[i]) THEN 0 ELSE 1 + LetterRun(s, i + 1)

RECURSIVE WordRun(_, _)
\* Length of the run of word characters (\w+) from position i of s
WordRun(s, i) ==
    IF i > Len(s) \/ ~IsWordChar(s[i]) THEN 0 ELSE 1 + WordRun(s, i + 1)

ShopeeSuffix == <<".", "s", "h", "o", "p", "e", "e">>

\* Whether '\.\w+\.shopee' matches at position dot of s.  '.' is no word character,
\* so the suffix can only start where the run of word characters ends.
ShopeeTailAt(s, dot, w) ==
    /\ dot <= Len(s) /\ s[dot] = "."
    /\ w >= 1
    /\ SubSeq(s, dot + 1 + w, dot + w + Len(ShopeeSuffix)) = ShopeeSuffix

\* Whether re '_([a-zA-Z]+)\.\w+\.shopee' matches at position i of s.  A shorter
\* run of letters cannot match, for a letter is no '.'.
ShopeeTokenAt(s, i) ==
    /\ s[i] = "_"
    /\ LetterRun(s, i + 1) >= 1
    /\ ShopeeTailAt(s, i + LetterRun(s, i + 1) + 1, WordRun(s, i + LetterRun(s, i + 1) + 2))

RECURSIVE FirstShopeeToken(_, _)
\* The leftmost position from i where the pattern matches (0: none), as re.search scans
FirstShopeeToken(s, i) ==
    IF i > Len(s) THEN 0
    ELSE IF ShopeeTokenAt(s, i) THEN i
    ELSE FirstShopeeToken(s, i + 1)

\* brand_mapping.get(token.lower(), token)
ShopeeBrandAlias(token, lower) ==
    CASE lower \in {<<"d", "r", "b", "l", "e", "t">>,
                    <<"d", "o", "c", "t", "o", "r", "b", "l", "e", "t">>} -> KrDoctorblet
      [] lower = <<"e", "o", "a">> -> <<"E", "O", "A">>
      [] lower \in {<<"n", "o", "t", "h", "i", "n", "g", "v", "i", "r", "a", "l">>,
                    <<"n", "o", "t", "h", "i", "n", "g", "b", "e", "t", "t", "e", "r">>}
            -> KrNothingbetter
      [] lower = <<"t", "e", "t", "r", "a", "c", "u", "r", "e">> -> KrTetracure
      [] lower = <<"c", "a", "l", "o">> -> <<"C", "a", "l", "o">>
      [] OTHER -> token

\* ShopeeBrandAt that looks the token up as written
ShopeeBrandAtExact(filename, i) ==
    IF i = 0 THEN <<>>
    ELSE ShopeeBrandAlias(SubSeq(filename, i + 1, i + LetterRun(filename, i + 1)),
                          SubSeq(filename, i + 1, i + LetterRun(filename, i + 1)))

ShopeeBrandAt(filename, i) ==
    IF i = 0 THEN <<>>
    ELSE ShopeeBrandAlias(SubSeq(filename, i + 1, i + LetterRun(filename, i + 1)),
                          ToLower(SubSeq(filename, i + 1, i + LetterRun(filename, i + 1))))

\* import_raw.extract_brand_from_shopee_filename
ExtractBrandFromShopeeFilename(filename) ==
    ShopeeBrandAt(filename, FirstShopeeToken(filename, 1))

WholePart(r) == IF r = NoMatch THEN 0 ELSE r.coef \div Pow10(r.scale)

\* import_raw.safe_int on the cells modelled: whole numbers, else the default 0
RawSafeInt(val) ==
    IF val = None \/ val = StrCell(<<>>) THEN 0
    ELSE IF val.t = "num" THEN val.coef \div Pow10(val.scale)
    ELSE IF val.t = "str" THEN WholePart(DecimalParse(RemoveChar(RemoveChar(val.s, ","), "\t")))
    ELSE 0

DmyAt(s, i) ==
    /\ i + 9 <= Len(s)
    /\ IsDigit(s[i]) /\ IsDigit(s[i + 1]) /\ s[i + 2] = "-"
    /\ IsDigit(s[i + 3]) /\ IsDigit(s[i + 4]) /\ s[i + 5] = "-"
    /\ \A k \in (i + 6)..(i + 9) : IsDigit(s[k])

RECURSIVE FirstDmy(_, _)
\* The leftmost position from i where '\d{2}-\d{2}-\d{4}' matches (0: none)
FirstDmy(s, i) ==
    IF i + 9 > Len(s) THEN 0
    ELSE IF DmyAt(s, i) THEN i
    ELSE FirstDmy(s, i + 1)

DmyDate(s, i) ==
    IF i = 0 THEN None
    ELSE [y |-> DigitsVal(SubSeq(s, i + 6, i + 9)),
          m |-> DigitsVal(SubSeq(s, i + 3, i + 4)),
          d |-> DigitsVal(SubSeq(s, i, i + 1))]

\* re.search(r'(\d{2})-(\d{2})-(\d{4})', text) read as day, month, year (None: no match)
FindDmy(s) == DmyDate(s, FirstDmy(s, 1))

\* bool(v) of a Decimal
DecNonZero(v) == v # None /\ v.coef # 0

\* str(cell or '')
CellText(val) ==
    IF ~Truthy(val) THEN <<>>
    ELSE IF val.t = "str" THEN val.s
    ELSE IF val.t = "num" /\ val.scale = 0 /\ val.coef >= 0 THEN FormatInt(val.coef)
    ELSE <<"?">>

(***************************************************************************)
(* The coercions are pure: their values on the cells and file names of the *)
(* modelled files are computed once, and the importers read a row as the   *)
(* record of its coerced cells.                                            *)
(***************************************************************************)
RowCells(row) == {row[f] : f \in DOMAIN row}

\* Cells of the amount columns of a CSV file, with the value each reports (None:
\* none): a column the file lacks, an empty field, a text that is no number, zero
\* and two amounts
AmountCells ==
    {[cell |-> None, reported |-> None],
     [cell |-> Empty, reported |-> None],
     [cell |-> Txt(<<"n", "/", "a">>), reported |-> None],
     [cell |-> Txt(<<"0">>), reported |-> [coef |-> 0, scale |-> 0]],
     [cell |-> Txt(<<"1", "0">>), reported |-> [coef |-> 10, scale |-> 0]],
     [cell |-> Txt(<<"5", ".", "5", "0">>), reported |-> [coef |-> 550, scale |-> 2]]}

RawCells ==
    {None} \cup UNION {RowCells(row) : row \in ShopifyRowUniverse \cup TiktokRowUniverse
                                   \cup ShopeeProductUniverse \cup Qoo10RowUniverse
                                   \cup (ShopeePlacedRows \ {None})}
           \cup {c.cell : c \in AmountCells}

RawFilenames ==
    ShopeeFilenames \cup Qoo10Filenames
    \cup {<<"s", "h", "o", "p", "e", "e", ".", "2", "0", "2", "6", "0", "3", "0", "1">>}
    \cup {<<"_", "d", "r", "b", "l", "e", "t", ".", "s", "g", ".",
             "s", "h", "o", "p", "e", "e", ".", "2", "0", "2", "6", "0", "3", "0", "1">>}

\* What import_raw makes of one cell: bool(val), safe_date(val), safe_str(val),
\* safe_decimal(val, None), safe_decimal(val), safe_int(val), str(val or '') and
\* the dd-mm-yyyy date found in that text
CoerceCell(val) ==
    [truthy |-> Truthy(val),
     date   |-> RawSafeDate(val),
     str    |-> RawSafeStr(val),
     dec    |-> RawSafeDecimal(val, None),
     dec0   |-> RawSafeDecimal(val, IntVal(0)),
     int    |-> RawSafeInt(val),
     text   |-> CellText(val),
     dmy    |-> FindDmy(CellText(val))]

RawCoerced == [c \in RawCells |-> CoerceCell(c)]

CoerceRow(row) == [f \in DOMAIN row |-> RawCoerced[row[f]]]

CoerceRows(rows) == [i \in 1..Len(rows) |-> CoerceRow(rows[i])]

\* What import_raw makes of a file name
FilenameTable ==
    [f \in RawFilenames |-> [date  |-> ExtractDateFromFilename(f),
                             brand |-> ExtractBrandFromShopeeFilename(f)]]

(***************************************************************************)
(* import_raw: the CSV importers (Shopify, TikTok)                         *)
(*                                                                         *)
(* A CSV row is a record of cells by column; a column the file does not    *)
(* have reads as None and an empty field as the empty text.                *)
(***************************************************************************)
\* import_raw._collect_csv_dates: the set of the dates safe_date finds, row by row
\* (dates[i] being safe_date(row.get(col) or row.get(alt)) of row i)
CollectCsvDates(dates) == {dates[i] : i \in 1..Len(dates)} \ {None}

\* The rows of tbl that filter(region=..., order_date__gte=lo, order_date__lte=hi) selects
RowsInRange(tbl, region, lo, hi) ==
    BagFilter(tbl, LAMBDA r : r.region = region /\ r.order_date # None
                              /\ DateLE(lo, r.order_date) /\ DateLE(r.order_date, hi))

\* The first pass of a CSV import: the rows --clear-date deletes
CsvRangeDelete(tbl, dates, clear) ==
    IF clear /\ dates # {}
    THEN RowsInRange(tbl, "us", MinDate(dates), MaxDate(dates))
    ELSE EmptyBag

\* The outcome of an importer that deleted the rows `deleted` and then
\* bulk-created `objects` in its transaction
Loaded(tbl, deleted, objects) ==
    [table |-> (tbl (-) deleted) (+) SeqToBag(objects), count |-> Len(objects),
     deleted |-> deleted, inserted |-> SeqToBag(objects), raised |-> FALSE]

\* The outcome of an importer that raised before its first write
Raised(tbl) ==
    [table |-> tbl, count |-> 0, deleted |-> EmptyBag, inserted |-> EmptyBag,
     raised |-> TRUE]

\* safe_date(row.get('Paid at') or row.get('Created at'))
ShopifyDate(row) == IF row.paid.truthy THEN row.paid.date ELSE row.created.date

ShopifyKeep(row) ==
    /\ ShopifyDate(row) # None
    /\ ~(row.name.str = <<>> /\ row.vendor.str = <<>>)

\* a or b: a zero amount gives way to the second as well
FirstTruthy(a, b) == IF a # None /\ a.coef # 0 THEN a ELSE b

\* total_amt if total_amt is not None else subtotal
FirstNotNone(a, b) == IF a # None THEN a ELSE b

ShopifyRecord(row) ==
    [region        |-> "us",
     brand         |-> row.vendor.str,
     final_amount  |-> FirstNotNone(row.total.dec, row.subtotal.dec),
     order_date    |-> ShopifyDate(row),
     order_name    |-> row.name.str,
     subtotal      |-> row.subtotal.dec,
     total         |-> row.total.dec,
     lineitem_name |-> row.lineitem.str]

\* ShopifyLoad that keeps the first row of each order name only
ShopifyLoadByName(tbl, rows, clear) ==
    Loaded(tbl, CsvRangeDelete(tbl, CollectCsvDates(MapSeq(rows, ShopifyDate)), clear),
           MapSeq(SelectSeq([i \in 1..Len(SelectSeq(rows, ShopifyKeep)) |->
                                [i |-> i, row |-> SelectSeq(rows, ShopifyKeep)[i]]],
                            LAMBDA e : \A j \in 1..(e.i - 1) :
                                SelectSeq(rows, ShopifyKeep)[j].name.str # e.row.name.str),
                  LAMBDA e : ShopifyRecord(e.row)))

ShopifyLoad(tbl, rows, clear) ==
    Loaded(tbl, CsvRangeDelete(tbl, CollectCsvDates(MapSeq(rows, ShopifyDate)), clear),
           MapSelect(rows, ShopifyKeep, ShopifyRecord))

\* import_raw.Command._import_shopify_csv, one transaction
ImportShopifyCsv(tbl, rows, clear) == ShopifyLoad(tbl, CoerceRows(rows), clear)

TiktokBrand(sku, product) ==
    IF \/ StartsWith(sku, <<"D", "R", "-">>)
       \/ Contains(product, <<"d", "r", ".", "b", "l", "e", "t">>)
       \/ Contains(product, <<"p", "o", "o", "e", "n", "g">>)
    THEN KrDoctorblet
    ELSE IF \/ StartsWith(sku, <<"C", "A", "L", "O", "-">>)
            \/ Contains(product, <<"c", "a", "l", "o">>)
    THEN <<"C", "a", "l", "o">>
    ELSE <<>>

\* detect_brand of _import_tiktok_csv: by SKU prefix or product name
TiktokDetectBrand(row) == TiktokBrand(ToUpper(row.sku.str), ToLower(row.product.str))

\* safe_date(row.get('Created Time') or row.get('Paid Time'))
TiktokDate(row) == IF row.created.truthy THEN row.created.date ELSE row.paid.date

TiktokKeep(row) ==
    /\ TiktokDate(row) # None
    /\ row.order_id.str # <<>>

TiktokRecord(row) ==
    [region        |-> "us",
     brand         |-> TiktokDetectBrand(row),
     final_amount  |-> FirstNotNone(row.sku_subtotal.dec, row.order_amount.dec),
     order_date    |-> TiktokDate(row),
     order_id      |-> row.order_id.str,
     unit_price    |-> row.unit_price.dec,
     order_amount  |-> row.order_amount.dec,
     refund_amount |-> row.refund.dec]

TiktokLoad(tbl, rows, clear) ==
    Loaded(tbl, CsvRangeDelete(tbl, CollectCsvDates(MapSeq(rows, TiktokDate)), clear),
           MapSelect(rows, TiktokKeep, TiktokRecord))

\* import_raw.Command._import_tiktok_csv, one transaction
ImportTiktokCsv(tbl, rows, clear) == TiktokLoad(tbl, CoerceRows(rows), clear)

(***************************************************************************)
(* import_raw: the Excel importers (Shopee, Qoo10)                         *)
(***************************************************************************)
\* datetime.date(year, month, day) raises ValueError unless this holds
IsCalendarDate(dt) ==
    dt.y \in 1..9999 /\ dt.m \in 1..12 /\ dt.d \in 1..DaysInMonth(dt.y, dt.m)

\* The file name has no date and date(int(year), int(month), int(day)) raises on
\* the digits found in the first cell of the 'Placed Order' sheet's data row
ShopeeDateRaises(file_date, placed) ==
    /\ file_date = None
    /\ placed # None
    /\ placed.date.dmy # None
    /\ ~IsCalendarDate(placed.date.dmy)

\* The order date of a Shopee import: the file name's date, else the dd-mm-yyyy
\* date in the first cell of the 'Placed Order' sheet's data row
ShopeeOrderDate(file_date, placed) ==
    IF file_date # None THEN file_date
    ELSE IF placed = None THEN None
    ELSE placed.date.dmy

\* f'DAILY-{order_date}'
DailyOrderId(order_date) ==
    <<"D", "A", "I", "L", "Y", "-">> \o FormatDate(order_date, "Ymd")

\* The daily summary record of the 'Placed Order' sheet (a sequence of 0 or 1 records)
ShopeeDailyRecords(placed, order_date, brand) ==
    IF placed = None THEN <<>>
    ELSE IF order_date # None /\ (DecNonZero(placed.sales.dec0) \/ placed.orders.int # 0)
    THEN <<[region |-> "cn", brand |-> brand, final_amount |-> placed.sales.dec0,
            order_date |-> order_date, order_id |-> DailyOrderId(order_date),
            order_status |-> <<"D", "a", "i", "l", "y", " ", "S", "u", "m", "m", "a", "r", "y">>, quantity |-> placed.orders.int,
            order_amount |-> placed.sales.dec0,
            refund_amount |-> placed.refunded.dec0]>>
    ELSE <<>>

\* A product row is read when item_id.replace('.', '').isdigit() and it has a name
ShopeeProductKeep(row) ==
    /\ RemoveChar(row.item_id.text, ".") # <<>>
    /\ AllDigits(RemoveChar(row.item_id.text, "."))
    /\ row.product.text # <<>>

ShopeeProduct(row, order_type, order_date, brand) ==
    [region |-> "cn", brand |-> brand, final_amount |-> row.sales.dec0,
     order_date |-> order_date, order_id |-> row.item_id.text,
     order_status |-> order_type, quantity |-> row.units.int,
     order_amount |-> row.sales.dec0, refund_amount |-> None]

\* The records of one 'Product Contribution' sheet
ShopeeProducts(rows, order_type, order_date, brand) ==
    IF order_date = None THEN <<>>
    ELSE MapSelect(rows, ShopeeProductKeep,
                   LAMBDA row : ShopeeProduct(row, order_type, order_date, brand))

ShopeeObjects(file, order_date, brand) ==
    ShopeeDailyRecords(file.placed, order_date, brand)
    \o ShopeeProducts(file.placed_products, <<"P", "l", "a", "c", "e", "d">>, order_date, brand)
    \o ShopeeProducts(file.paid_products, <<"P", "a", "i", "d">>, order_date, brand)

\* ShopeeDelete without the date: every row of the region goes
ShopeeDeleteRegion(tbl, file_date, clear) ==
    IF clear THEN BagFilter(tbl, LAMBDA r : r.region = "cn") ELSE EmptyBag

\* The rows --clear-date deletes: those of the file name's date, when it has one
ShopeeDelete(tbl, file_date, clear) ==
    IF clear /\ file_date # None
    THEN BagFilter(tbl, LAMBDA r : r.region = "cn" /\ r.order_date = file_date)
    ELSE EmptyBag

ShopeeLoad(tbl, file, clear) ==
    IF ShopeeDateRaises(file.name.date, file.placed)
    THEN Raised(tbl)
    ELSE Loaded(tbl, ShopeeDelete(tbl, file.name.date, clear),
                ShopeeObjects(file, ShopeeOrderDate(file.name.date, file.placed),
                              file.name.brand))

\* The workbook as import_raw reads it: its name's date and brand, its sheets' cells
CoerceShopee(file) ==
    [name            |-> FilenameTable[file.filename],
     placed          |-> IF file.placed = None THEN None ELSE CoerceRow(file.placed),
     placed_products |-> CoerceRows(file.placed_products),
     paid_products   |-> CoerceRows(file.paid_products)]

\* import_raw.Command._import_shopee_excel, one transaction
ImportShopeeExcel(tbl, file, clear) == ShopeeLoad(tbl, CoerceShopee(file), clear)

\* qoo10_brand_map.get(name, token)
Qoo10BrandAlias(token, name) ==
    IF name \in {<<"n", "o", "t", "h", "i", "n", "g", "b", "e", "t", "t", "e", "r">>,
                 <<"n", "o", "t", "h", "i", "n", "g", "v", "i", "r", "a", "l">>}
    THEN KrNothingbetter
    ELSE IF name \in {<<"d", "r", "b", "l", "e", "t">>,
                      <<"d", "o", "c", "t", "o", "r", "b", "l", "e", "t">>,
                      <<"d", "r", ".", "b", "l", "e", "t">>}
    THEN KrDoctorblet
    ELSE token

\* The brand of a Qoo10 row: the text before '/', through the alias table
Qoo10Brand(brand_raw) ==
    IF brand_raw = <<>> THEN <<>>
    ELSE Qoo10BrandAlias(Strip(BeforeChar(brand_raw, "/")),
                         ToLower(Strip(BeforeChar(brand_raw, "/"))))

Qoo10Keep(row) == row.product_id.str # <<>>

Qoo10Record(row, order_date) ==
    [region |-> "jp", brand |-> Qoo10Brand(row.brand.str),
     final_amount |-> row.final.dec,
     order_date |-> order_date, order_id |-> row.product_id.str,
     order_amount |-> row.amount.dec,
     refund_amount |-> row.refund.dec]

\* The Qoo10 load with the delete filtered by the order date alone
Qoo10LoadOfDate(tbl, has_data_sheet, order_date, rows, clear) ==
    IF ~has_data_sheet \/ order_date = None
    THEN Raised(tbl)
    ELSE Loaded(tbl,
                IF clear
                THEN BagFilter(tbl, LAMBDA r : r.order_date = order_date)
                ELSE EmptyBag,
                MapSelect(rows, Qoo10Keep, LAMBDA row : Qoo10Record(row, order_date)))

Qoo10Load(tbl, has_data_sheet, order_date, rows, clear) ==
    IF ~has_data_sheet \/ order_date = None
    THEN Raised(tbl)
    ELSE Loaded(tbl,
                IF clear
                THEN BagFilter(tbl, LAMBDA r : r.region = "jp" /\ r.order_date = order_date)
                ELSE EmptyBag,
                MapSelect(rows, Qoo10Keep, LAMBDA row : Qoo10Record(row, order_date)))

\* import_raw.Command._import_qoo10_excel, one transaction.  A workbook without a
\* 'data' sheet raises KeyError, a file name without a date CommandError; both
\* leave the transaction before any write.
ImportQoo10Excel(tbl, file, clear) ==
    Qoo10Load(tbl, file.has_data_sheet, FilenameTable[file.filename].date,
              CoerceRows(file.rows), clear)

\* The importer of a platform, run on the platform's table
RunImporter(tbl, inp) ==
    CASE inp.platform = "shopify" -> ImportShopifyCsv(tbl, inp.file, inp.clear)
      [] inp.platform = "tiktok"  -> ImportTiktokCsv(tbl, inp.file, inp.clear)
      [] inp.platform = "shopee"  -> ImportShopeeExcel(tbl, inp.file, inp.clear)
      [] inp.platform = "qoo10"   -> ImportQoo10Excel(tbl, inp.file, inp.clear)

\* What handle makes of the importer's outcome r: the importer's transaction has
\* committed when handle raises CommandError for a count of zero.
Handled(d, platform, r) ==
    [db       |-> IF r.raised THEN d ELSE [d EXCEPT !.orders[platform] = r.table],
     failed   |-> r.raised \/ r.count = 0,
     deleted  |-> [p \in Platforms |-> IF p = platform THEN r.deleted ELSE EmptyBag],
     inserted |-> [p \in Platforms |-> IF p = platform /\ ~r.raised THEN r.inserted
                                       ELSE EmptyBag]]

\* import_raw.Command.handle with --platform given
RawHandle(d, inp) == Handled(d, inp.platform, RunImporter(d.orders[inp.platform], inp))

(***************************************************************************)
(* The import commands as operations                                       *)
(***************************************************************************)
NoCmd == [cmd |-> "none"]

\* The database and the record of the run after a run with input inp and outcome r
Ran(cmd, inp, r) ==
    /\ db' = r.db
    /\ last' = [cmd |-> cmd, inp |-> inp, pre |-> db, failed |-> r.failed,
                deleted |-> r.deleted, inserted |-> r.inserted]

RawRun(inp) == Ran("import_raw", inp, RawHandle(db, inp))

\* One run of `manage.py import_raw FILE --platform P [--clear-date]`
ImportRawFile(platform) ==
    /\ calls < MaxCalls
    /\ \E file \in RawFiles(platform), clear \in BOOLEAN :
        RawRun([platform |-> platform, file |-> file, clear |-> clear])
    /\ calls' = calls + 1
    /\ UNCHANGED <<fnIn, fnOut, txns>>

ImportShopify == ImportRawFile("shopify")

ImportTiktok == ImportRawFile("tiktok")

ImportShopee == ImportRawFile("shopee")

ImportQoo10 == ImportRawFile("qoo10")

(***************************************************************************)
(* import_excel: the region configuration                                  *)
(***************************************************************************)
Regions == {"us", "cn", "jp", "global"}

BrandRow(code, name, name_kr) == [code |-> code, name |-> name, name_kr |-> name_kr]

\* REGION_CONFIG[region]['brands']
RegionBrands(region) ==
    CASE region = "us" -> {BrandRow("doctorblet", "Dr.Blet", KrDoctorblet),
                           BrandRow("calo", "Calo", <<"C", "a", "l", "o">>)}
      [] region = "cn" -> {BrandRow("doctorblet", "Dr.Blet", KrDoctorblet),
                           BrandRow("eoa", "EOA", <<"E", "O", "A">>),
                           BrandRow("nothingviral", "Nothing Viral", KrNothingbetter),
                           BrandRow("tetracure", "Tetracure", KrTetracure)}
      [] region = "jp" -> {BrandRow("doctorblet", "Dr.Blet", KrDoctorblet),
                           BrandRow("nothingviral", "Nothing Viral", KrNothingbetter)}
      [] OTHER -> {}

\* REGION_CONFIG[region]['brand_keywords']: the brands' Korean names
BrandKeywords(region) == {b.name_kr : b \in RegionBrands(region)}

NoBrandCode == ""

\* REGION_CONFIG[region]['brand_map'].get(brand_name)
BrandMapGet(region, brand_name) ==
    IF brand_name \in BrandKeywords(region)
    THEN (CHOOSE b \in RegionBrands(region) : b.name_kr = brand_name).code
    ELSE NoBrandCode

\* REGION_CONFIG[region]['raw_sheets']: the channels whose RAW sheet is read
RawChannels(region) ==
    CASE region = "us" -> {"shopify", "tiktok"}
      [] region = "cn" -> {"shopee"}
      [] region = "jp" -> {"qoo10"}
      [] OTHER -> {}

\* REGION_CONFIG[region]['tax_sheet'] is set
HasTaxSheet(region) == region = "us"

\* The syllable of the month label and import_excel.Command._parse_month
KrMonth == "wol"

\* ParseMonth that reads the digits of a label with a leading zero as well
ParseMonthOfDigits(month_str) ==
    IF Len(month_str) >= 2 /\ month_str[Len(month_str)] = KrMonth
       /\ AllDigits(SubSeq(month_str, 1, Len(month_str) - 1))
       /\ DigitsVal(SubSeq(month_str, 1, Len(month_str) - 1)) \in 1..12
    THEN DigitsVal(SubSeq(month_str, 1, Len(month_str) - 1))
    ELSE 1

ParseMonth(month_str) ==
    IF Len(month_str) >= 2 /\ month_str[Len(month_str)] = KrMonth
       /\ AllDigits(SubSeq(month_str, 1, Len(month_str) - 1))
       /\ month_str[1] # "0"
       /\ DigitsVal(SubSeq(month_str, 1, Len(month_str) - 1)) \in 1..12
    THEN DigitsVal(SubSeq(month_str, 1, Len(month_str) - 1))
    ELSE 1

(***************************************************************************)
(* import_excel: coercions of a workbook cell.  pandas reads an empty cell *)
(* as NaN (None here), a date cell as a datetime, a number as a number.    *)
(***************************************************************************)
\* str(val)
PyStr(val) ==
    IF val = None THEN <<"n", "a", "n">>
    ELSE IF val.t = "str" THEN val.s
    ELSE IF val.t = "dt"
    THEN FormatDate(val.d, "Ymd") \o <<" ", "0", "0", ":", "0", "0", ":", "0", "0">>
    ELSE IF val.t = "num" /\ val.scale = 0 /\ val.coef >= 0 THEN FormatInt(val.coef)
    ELSE <<"?">>

\* import_excel.safe_str
ExcelSafeStr(val) == IF val = None THEN <<>> ELSE Strip(PyStr(val))

\* import_excel.safe_int on the cells modelled: int(float(val)), else the default 0
ExcelSafeInt(val) ==
    IF val = None THEN 0
    ELSE IF val.t = "num" THEN val.coef \div Pow10(val.scale)
    ELSE IF val.t = "str" THEN WholePart(DecimalParse(val.s))
    ELSE 0

\* What import_excel makes of one cell: safe_date(val), safe_decimal(val),
\* safe_decimal(val, None), safe_decimal(val, 1446), safe_str(val), safe_int(val)
\* and '합계' in str(val)
ExcelCoerceCell(val) ==
    [date   |-> ExcelSafeDate(val),
     dec0   |-> ExcelSafeDecimal(val, IntVal(0)),
     dec    |-> ExcelSafeDecimal(val, None),
     rate   |-> ExcelSafeDecimal(val, IntVal(1446)),
     str    |-> ExcelSafeStr(val),
     int    |-> ExcelSafeInt(val),
     totals |-> Contains(PyStr(val), TotalsMarker)]

(***************************************************************************)
(* The workbooks import_excel is run on.  A data row holds, in every column*)
(* not named otherwise, the number of the column, so that a record shows   *)
(* which column each of its fields was read from.                          *)
(***************************************************************************)
PnlWidth == 43       \* a P&L sheet has the columns 0..42
BrandWidth == 22     \* a brand-sales sheet has the columns 0..21
ShopifyRawWidth == 47
TiktokRawWidth == 53
NarrowWidth == 4     \* a sheet cut after column 3

\* The data row of the given width with the cells `special` by column
SheetRow(width, special) ==
    [i \in 1..width |-> IF (i - 1) \in DOMAIN special THEN special[i - 1]
                        ELSE NumCell(i - 1, 0)]

\* The date column's text of a totals row, and of a row that has both a date and the label
TotalsCell == StrCell(TotalsMarker)

DatedTotalsCell == StrCell(DayText(Day(2)) \o <<"+">> \o TotalsMarker)

PnlDateCells == {DtCell(Day(1)), DtCell(Day(2)), TotalsCell, DatedTotalsCell}

MonthText == <<"3", KrMonth>>

PnlSheet(prefix, month_str, rate, width, dates) ==
    [prefix |-> prefix, month_str |-> month_str, rate |-> rate,
     rows |-> [i \in 1..Len(dates) |-> SheetRow(width, 1 :> dates[i])]]

\* P&L sheets named '손익관리_3월'; one cut after column 3; one named '손익관리 전체_x'
PnlSheets ==
    {PnlSheet("pnl", MonthText, NumCell(1400, 0), PnlWidth, dates) :
        dates \in SeqsUpTo(PnlDateCells, MaxRows)}
    \cup {PnlSheet("pnl", MonthText, NumCell(1400, 0), NarrowWidth, <<DtCell(Day(1))>>),
          PnlSheet("pnl_all", <<"x">>, None, PnlWidth, <<DtCell(Day(1))>>)}

GoodPnlSheet == PnlSheet("pnl", MonthText, NumCell(1400, 0), PnlWidth, <<DtCell(Day(1))>>)

BrandSheetRows(width) ==
    {SheetRow(width, 1 :> DtCell(Day(1)) @@ 2 :> StrCell(KrDoctorblet)),
     SheetRow(width, 1 :> TotalsCell @@ 2 :> StrCell(KrDoctorblet)),
     SheetRow(width, 1 :> DtCell(Day(2)) @@ 2 :> StrCell(<<"E", "O", "A">>))}

\* Brand-sales sheets named '매출_닥터블릿'; one cut after column 2
BrandSheets ==
    {[keyword |-> KrDoctorblet, rows |-> rows] :
        rows \in SeqsUpTo(BrandSheetRows(BrandWidth), MaxRows)}
    \cup {[keyword |-> KrDoctorblet,
           rows |-> <<SheetRow(3, 1 :> DtCell(Day(1)) @@ 2 :> StrCell(KrDoctorblet))>>]}

\* The brand cell '없음' of a RAW row
KrNone == <<"eop", "eum">>

RawSheetRow(width, brand, k) == SheetRow(width, 1 :> StrCell(brand) @@ 3 :> DtCell(Day(k)))

\* RAW sheets: per channel one row, and a second without a brand; for Shopify
\* one cut after column 3
RawSheets ==
    {[channel |-> c, rows |-> <<RawSheetRow(TiktokRawWidth, KrDoctorblet, 1)>>] :
        c \in Platforms}
    \cup {[channel |-> c, rows |-> <<RawSheetRow(TiktokRawWidth, KrDoctorblet, 2),
                                      RawSheetRow(TiktokRawWidth, KrNone, 1)>>] :
            c \in Platforms}
    \cup {[channel |-> "shopify",
           rows |-> <<RawSheetRow(NarrowWidth, KrDoctorblet, 1)>>]}

TaxRow(state, amounts) == [state |-> state, amounts |-> amounts]

TaxSheet(header, rows) == [short |-> FALSE, header |-> header, rows |-> rows]

\* Tax sheets 'Tax_TT': the header row's date cells from column 2 and the state
\* rows' cells under them; a short sheet has fewer than three rows
TaxSheets ==
    {TaxSheet(<<DtCell(Day(1))>>, <<TaxRow(StrCell(<<"C", "A">>), <<NumCell(5, 0)>>)>>),
     TaxSheet(<<DtCell(Day(1)), DtCell(Day(2))>>,
              <<TaxRow(StrCell(<<"C", "A">>), <<NumCell(5, 0), NumCell(0, 0)>>),
                TaxRow(None, <<NumCell(7, 0), NumCell(7, 0)>>)>>),
     [short |-> TRUE, header |-> <<>>, rows |-> <<>>]}

Workbook(pnl, brand, raw, tax) == [pnl |-> pnl, brand |-> brand, raw |-> raw, tax |-> tax]

\* Workbooks of one sheet, and of the good P&L sheet with one other sheet
Workbooks ==
    {Workbook(s, None, None, None) : s \in PnlSheets}
    \cup {Workbook(p, s, None, None) : p \in {None, GoodPnlSheet}, s \in BrandSheets}
    \cup {Workbook(p, None, s, None) : p \in {None, GoodPnlSheet}, s \in RawSheets}
    \cup {Workbook(p, None, None, s) : p \in {None, GoodPnlSheet}, s \in TaxSheets}

\* A few workbooks for the regions other than us: the good P&L sheet, one with a
\* totals row first, the one named for all regions, a brand-sales sheet, the RAW
\* sheets of one row, and a tax sheet
FewWorkbooks ==
    {Workbook(s, None, None, None) :
        s \in {GoodPnlSheet,
               PnlSheet("pnl", MonthText, NumCell(1400, 0), PnlWidth,
                        <<TotalsCell, DtCell(Day(2))>>),
               PnlSheet("pnl_all", <<"x">>, None, PnlWidth, <<DtCell(Day(1))>>)}}
    \cup {Workbook(None, [keyword |-> KrDoctorblet, rows |-> rows], None, None) :
            rows \in [1..MaxRows -> BrandSheetRows(BrandWidth)]}
    \cup {Workbook(GoodPnlSheet, None, s, None) : s \in {r \in RawSheets : Len(r.rows) = 1}}
    \cup {Workbook(None, None, None, s) : s \in {t \in TaxSheets : ~t.short}}

RegionWorkbooks(region) == IF region = "us" THEN Workbooks ELSE FewWorkbooks

\* Cells of the tax sheets: a header date of the next month and a second state
NextMonthCell == DtCell([y |-> 2026, m |-> 4, d |-> 1])

TaxCells == {NextMonthCell, StrCell(<<"N", "Y">>)}

\* Cells of the operating-margin columns, with the value each reports (None: none).
\* The values fit the column, DecimalField(max_digits=8, decimal_places=6).
MarginCells ==
    {[cell |-> None, reported |-> None],
     [cell |-> StrCell(<<>>), reported |-> None],
     [cell |-> StrCell(DivZeroText), reported |-> None],
     [cell |-> StrCell(<<"#", "R", "E", "F", "!">>), reported |-> None],
     [cell |-> NumCell(0, 0), reported |-> [coef |-> 0, scale |-> 0]],
     [cell |-> NumCell(1234, 4), reported |-> [coef |-> 1234, scale |-> 4]],
     [cell |-> StrCell(<<"0", ".", "2", "5">>), reported |-> [coef |-> 25, scale |-> 2]]}

ExcelCells ==
    {None, NumCell(1400, 0), StrCell(KrDoctorblet), StrCell(KrNone),
     StrCell(<<"E", "O", "A">>), StrCell(<<"C", "A">>), NumCell(5, 0), NumCell(7, 0)}
    \cup PnlDateCells
    \cup TaxCells
    \cup {c.cell : c \in MarginCells}
    \cup {NumCell(c, 0) : c \in 0..(TiktokRawWidth - 1)}

ExcelCoerced == [c \in ExcelCells |-> ExcelCoerceCell(c)]

ExcelCoerceRow(row) == [i \in 1..Len(row) |-> ExcelCoerced[row[i]]]

ExcelCoerceRows(rows) == [i \in 1..Len(rows) |-> ExcelCoerceRow(rows[i])]

(***************************************************************************)
(* import_excel: the tables with a natural key                             *)
(***************************************************************************)
Zero == [coef |-> 0, scale |-> 0]

\* The rows of T with the key
Existing(T, key) == {r \in T : \A f \in DOMAIN key : r[f] = key[f]}

\* The fields of the row update_or_create writes: the defaults, the key, and for
\* the rest the fields of the row found, or `blank` when it creates one
Written(found, key, defaults, blank) ==
    defaults @@ key @@ (IF found = {} THEN blank ELSE CHOOSE r \in found : TRUE)

\* update_or_create that creates a row also when one with the key exists
AlwaysCreate(T, key, defaults, blank) ==
    T \cup {Written(Existing(T, key), key, defaults, blank)}

\* Model.objects.update_or_create(**key, defaults=defaults)
UpdateOrCreate(T, key, defaults, blank) ==
    (T \ Existing(T, key)) \cup {Written(Existing(T, key), key, defaults, blank)}

\* get_or_create that writes the defaults over a row found
CreateOrOverwrite(T, key, defaults) == (T \ Existing(T, key)) \cup {defaults @@ key}

\* Model.objects.get_or_create(**key, defaults=defaults)
GetOrCreate(T, key, defaults) ==
    IF Existing(T, key) # {} THEN T ELSE T \cup {defaults @@ key}

\* row[c] of a data row; the value of a column the row may not have
Col(row, c) == row[c + 1]

Dec0At(row, c) == IF Len(row) > c THEN Col(row, c).dec0 ELSE Zero

DecAt(row, c) == IF Len(row) > c THEN Col(row, c).dec ELSE None

StrAt(row, c) == IF Len(row) > c THEN Col(row, c).str ELSE <<>>

IntAt(row, c) == IF Len(row) > c THEN Col(row, c).int ELSE 0

\* BreakAt of a loop that never breaks
BreakNever(rows, i) == Len(rows) + 1

RECURSIVE BreakAt(_, _)
\* The position of the row at which the loop over a sheet breaks: the first row
\* whose date column parses as a date and holds the totals label (none: past the end)
BreakAt(rows, i) ==
    IF i > Len(rows) THEN i
    ELSE IF Col(rows[i], 1).date # None /\ Col(rows[i], 1).totals THEN i
    ELSE BreakAt(rows, i + 1)

\* DatedRows with the loop ending at the first row without a date
DatedRowsUntilUndated(rows) ==
    LET stops == {i \in 1..Len(rows) : Col(rows[i], 1).date = None \/ Col(rows[i], 1).totals} IN
    SubSeq(rows, 1, (IF stops = {} THEN Len(rows) + 1
                     ELSE CHOOSE i \in stops : \A j \in stops : i <= j) - 1)

\* The rows the loop over a sheet gets past `continue` and `break` with
DatedRows(rows) ==
    SelectSeq(SubSeq(rows, 1, BreakAt(rows, 1) - 1), LAMBDA row : Col(row, 1).date # None)

\* Whether a row the importer reads lacks a column it reads unconditionally (KeyError)
LacksColumn(rows, min_width) == \E i \in 1..Len(rows) : Len(rows[i]) < min_width

\* The outcome of a sheet's importer: the database after its transaction
Done(d) == [db |-> d, failed |-> FALSE]

\* The outcome of a sheet's importer that raised: its transaction is rolled back
RolledBack(d) == [db |-> d, failed |-> TRUE]

(***************************************************************************)
(* import_excel: the P&L sheets                                            *)
(***************************************************************************)
DayKey(row, region) == [date |-> Col(row, 1).date, region |-> region]

\* TotalDefaults with the operating margin read with the default 0
TotalDefaultsZeroMargin(row) ==
    [year |-> Col(row, 1).date.y, month |-> Col(row, 1).date.m,
     gmv |-> Col(row, 2).dec0, gsv |-> Col(row, 3).dec0, cogs |-> Col(row, 4).dec0,
     total_expense |-> Col(row, 5).dec0, performance_ad |-> Col(row, 6).dec0,
     influencer_ad |-> Col(row, 7).dec0, sales_commission |-> Col(row, 8).dec0,
     shipping |-> Col(row, 9).dec0, tax |-> Col(row, 10).dec0,
     operating_profit |-> Col(row, 11).dec0, operating_margin |-> Col(row, 12).dec0]

TotalDefaults(row) ==
    [year |-> Col(row, 1).date.y, month |-> Col(row, 1).date.m,
     gmv |-> Col(row, 2).dec0, gsv |-> Col(row, 3).dec0, cogs |-> Col(row, 4).dec0,
     total_expense |-> Col(row, 5).dec0, performance_ad |-> Col(row, 6).dec0,
     influencer_ad |-> Col(row, 7).dec0, sales_commission |-> Col(row, 8).dec0,
     shipping |-> Col(row, 9).dec0, tax |-> Col(row, 10).dec0,
     operating_profit |-> Col(row, 11).dec0, operating_margin |-> Col(row, 12).dec]

B2BDefaults(row) ==
    [year |-> Col(row, 1).date.y, month |-> Col(row, 1).date.m,
     sales_total |-> Col(row, 15).dec0, sales_us |-> Col(row, 16).dec0,
     cogs |-> Col(row, 17).dec0, total_expense |-> Col(row, 18).dec0,
     shipping |-> Col(row, 19).dec0, tax |-> Col(row, 20).dec0,
     operating_profit |-> Col(row, 21).dec0]

\* B2CChannels with the us columns for every region
B2CChannelsOfUs(row, region) ==
    [shopify |-> Col(row, 26).dec0, amazon |-> Col(row, 27).dec0,
     tiktok |-> Col(row, 28).dec0, refund_shopify |-> Col(row, 29).dec0,
     refund_amazon |-> Col(row, 30).dec0, refund_tiktok |-> Col(row, 31).dec0]

\* The channel columns of a B2C row by region (b2c_defaults.update)
B2CChannels(row, region) ==
    CASE region = "us" -> [shopify |-> Col(row, 26).dec0, amazon |-> Col(row, 27).dec0,
                           tiktok |-> Col(row, 28).dec0,
                           refund_shopify |-> Col(row, 29).dec0,
                           refund_amazon |-> Col(row, 30).dec0,
                           refund_tiktok |-> Col(row, 31).dec0]
      [] region = "cn" -> [shopee |-> Col(row, 26).dec0, refund_shopee |-> Dec0At(row, 29)]
      [] region = "jp" -> [qoo10 |-> Col(row, 26).dec0, refund_qoo10 |-> Dec0At(row, 29)]
      [] OTHER -> [b2c_total |-> Col(row, 25).dec0]

B2CDefaults(row, region) ==
    B2CChannels(row, region) @@
    [year |-> Col(row, 1).date.y, month |-> Col(row, 1).date.m,
     b2c_total |-> Col(row, 25).dec0, refund_total |-> Dec0At(row, 32),
     gsv |-> Dec0At(row, 33), cogs |-> Dec0At(row, 34),
     total_expense |-> Dec0At(row, 35), performance_ad |-> Dec0At(row, 36),
     influencer_ad |-> Dec0At(row, 37), sales_commission |-> Dec0At(row, 38),
     shipping |-> Dec0At(row, 39), tax |-> Dec0At(row, 40),
     operating_profit |-> Dec0At(row, 41), operating_margin |-> DecAt(row, 42)]

\* The channel fields of a newly created DailySalesB2C row (default=0)
B2CBlank ==
    [shopify |-> Zero, amazon |-> Zero, tiktok |-> Zero, shopee |-> Zero, qoo10 |-> Zero,
     refund_shopify |-> Zero, refund_amazon |-> Zero, refund_tiktok |-> Zero,
     refund_shopee |-> Zero, refund_qoo10 |-> Zero]

\* The highest column a P&L row is read at unconditionally, plus one
PnlMinWidth(region) ==
    CASE region = "us" -> 32
      [] region \in {"cn", "jp"} -> 27
      [] OTHER -> 26

\* The three update_or_create calls of one P&L row
PnlRowUpsert(d, region, row) ==
    [d EXCEPT !.total = UpdateOrCreate(@, DayKey(row, region), TotalDefaults(row),
                                       DayKey(row, region)),
              !.b2b   = UpdateOrCreate(@, DayKey(row, region), B2BDefaults(row),
                                       DayKey(row, region)),
              !.b2c   = UpdateOrCreate(@, DayKey(row, region), B2CDefaults(row, region),
                                       B2CBlank)]

RECURSIVE PnlUpserts(_, _, _, _)
PnlUpserts(d, region, rows, i) ==
    IF i > Len(rows) THEN d
    ELSE PnlUpserts(PnlRowUpsert(d, region, rows[i]), region, rows, i + 1)

\* ExchangeRate.objects.update_or_create(year=2026, month=month_num, region=...)
RateUpsert(d, region, month_num, rate_val) ==
    [d EXCEPT !.rate = UpdateOrCreate(@, [year |-> 2026, month |-> month_num,
                                          region |-> region],
                                      [rate |-> rate_val],
                                      [region |-> region])]

PnlLoad(d, region, month_num, rate_val, rows) ==
    IF LacksColumn(rows, PnlMinWidth(region))
    THEN RolledBack(d)
    ELSE Done(PnlUpserts(RateUpsert(d, region, month_num, rate_val), region, rows, 1))

\* import_excel.Command._import_pnl, one transaction
ImportPnl(d, region, sheet) ==
    PnlLoad(d, region, ParseMonth(sheet.month_str), ExcelCoerced[sheet.rate].rate,
            DatedRows(ExcelCoerceRows(sheet.rows)))

(***************************************************************************)
(* import_excel: the brand-sales sheets                                    *)
(***************************************************************************)
\* Brand.objects.get(code=..., region=...) finds a brand
BrandExists(d, region, code) == \E b \in d.brand : b.code = code /\ b.region = region

\* The rows of a brand-sales sheet that reach update_or_create
BrandRowKeep(d, region, row) ==
    /\ BrandMapGet(region, Col(row, 2).str) # NoBrandCode
    /\ BrandExists(d, region, BrandMapGet(region, Col(row, 2).str))

BrandKey(row, region) ==
    [date |-> Col(row, 1).date, brand |-> BrandMapGet(region, Col(row, 2).str),
     region |-> region]

\* The channel columns of a brand-sales row by region (defaults.update)
BrandChannels(row, region) ==
    CASE region = "us" -> [b2c_shopify |-> Col(row, 3).dec0, b2c_amazon |-> Dec0At(row, 4),
                           b2c_tiktok |-> Dec0At(row, 5),
                           refund_shopify |-> Dec0At(row, 7),
                           refund_amazon |-> Dec0At(row, 8),
                           refund_tiktok |-> Dec0At(row, 9),
                           ad_shopify |-> Dec0At(row, 19), ad_amazon |-> Dec0At(row, 20),
                           ad_tiktok |-> Dec0At(row, 21)]
      [] region = "cn" -> [b2c_shopee |-> Col(row, 3).dec0,
                           refund_shopee |-> Dec0At(row, 7), ad_shopee |-> Dec0At(row, 19)]
      [] region = "jp" -> [b2c_qoo10 |-> Col(row, 3).dec0,
                           refund_qoo10 |-> Dec0At(row, 7), ad_qoo10 |-> Dec0At(row, 19)]
      [] OTHER -> [b2c_total |-> Dec0At(row, 6)]

BrandDefaults(row, region) ==
    BrandChannels(row, region) @@
    [year |-> Col(row, 1).date.y, month |-> Col(row, 1).date.m,
     b2c_total |-> Dec0At(row, 6), refund_total |-> Dec0At(row, 10),
     gsv |-> Dec0At(row, 11), b2b_us |-> Dec0At(row, 15),
     b2b_total |-> Dec0At(row, 16), total_gsv |-> Dec0At(row, 17)]

\* The channel fields of a newly created BrandDailySales row (default=0)
BrandBlank ==
    [b2c_shopify |-> Zero, b2c_amazon |-> Zero, b2c_tiktok |-> Zero,
     b2c_shopee |-> Zero, b2c_qoo10 |-> Zero,
     refund_shopify |-> Zero, refund_amazon |-> Zero, refund_tiktok |-> Zero,
     refund_shopee |-> Zero, refund_qoo10 |-> Zero,
     ad_shopify |-> Zero, ad_amazon |-> Zero, ad_tiktok |-> Zero,
     ad_shopee |-> Zero, ad_qoo10 |-> Zero]

\* The highest column a kept brand-sales row is read at unconditionally, plus one
BrandMinWidth(region) == IF region = "global" THEN 3 ELSE 4

RECURSIVE BrandUpserts(_, _, _, _)
BrandUpserts(T, region, rows, i) ==
    IF i > Len(rows) THEN T
    ELSE BrandUpserts(UpdateOrCreate(T, BrandKey(rows[i], region),
                                     BrandDefaults(rows[i], region), BrandBlank),
                      region, rows, i + 1)

BrandLoad(d, region, rows) ==
    IF LacksColumn(rows, BrandMinWidth(region))
    THEN RolledBack(d)
    ELSE Done([d EXCEPT !.brandSales = BrandUpserts(@, region, rows, 1)])

\* import_excel.Command._import_brand_sales, one transaction
ImportBrandSales(d, region, sheet) ==
    BrandLoad(d, region,
              SelectSeq(DatedRows(ExcelCoerceRows(sheet.rows)),
                        LAMBDA row : BrandRowKeep(d, region, row)))

(***************************************************************************)
(* import_excel: the RAW sheets and the tax sheet                          *)
(***************************************************************************)
\* A RAW row is read when it has a brand other than '없음' and a date
RawRowKeep(row) ==
    /\ Col(row, 1).str # <<>> /\ Col(row, 1).str # KrNone
    /\ Col(row, 3).date # None

\* The order a RAW row creates, by channel; the fields are those import_raw fills
RawSheetRecord(channel, region, row) ==
    CASE channel = "shopify" ->
            [region |-> region, brand |-> Col(row, 1).str,
             final_amount |-> Col(row, 2).dec, order_date |-> Col(row, 3).date,
             order_name |-> Col(row, 4).str, subtotal |-> Col(row, 12).dec,
             total |-> Col(row, 15).dec, lineitem_name |-> Col(row, 21).str]
      [] channel = "tiktok" ->
            [region |-> region, brand |-> Col(row, 1).str,
             final_amount |-> Col(row, 2).dec, order_date |-> Col(row, 3).date,
             order_id |-> Col(row, 5).str, unit_price |-> Col(row, 16).dec,
             order_amount |-> Col(row, 28).dec, refund_amount |-> Col(row, 29).dec]
      [] channel = "shopee" ->
            [region |-> region, brand |-> Col(row, 1).str,
             final_amount |-> Col(row, 2).dec, order_date |-> Col(row, 3).date,
             order_id |-> StrAt(row, 4), order_status |-> StrAt(row, 5),
             quantity |-> IntAt(row, 8), order_amount |-> DecAt(row, 10),
             refund_amount |-> None]
      [] channel = "qoo10" ->
            [region |-> region, brand |-> Col(row, 1).str,
             final_amount |-> Col(row, 2).dec, order_date |-> Col(row, 3).date,
             order_id |-> StrAt(row, 4), order_amount |-> DecAt(row, 10),
             refund_amount |-> None]

\* The highest column a kept RAW row is read at unconditionally, plus one
RawMinWidth(channel) ==
    CASE channel = "shopify" -> ShopifyRawWidth
      [] channel = "tiktok"  -> TiktokRawWidth
      [] OTHER -> 4

RawSheetLoad(d, region, channel, rows) ==
    IF LacksColumn(rows, RawMinWidth(channel))
    THEN RolledBack(d)
    ELSE Done([d EXCEPT !.orders[channel] =
                  @ (+) SeqToBag(MapSeq(rows, LAMBDA row : RawSheetRecord(channel, region, row)))])

\* import_excel.Command._import_shopify_raw, _import_tiktok_raw, _import_shopee_raw,
\* _import_qoo10_raw: one transaction each, every kept row created
ImportRawSheet(d, region, sheet) ==
    RawSheetLoad(d, region, sheet.channel,
                 SelectSeq(ExcelCoerceRows(sheet.rows), RawRowKeep))

\* The tax cell of a state under a dated column, written also when it is zero
TaxCellUpsertAlways(T, region, state, date, amt) ==
    IF date = None THEN T
    ELSE UpdateOrCreate(T, [state_code |-> state, year |-> date.y, month |-> date.m,
                            region |-> region],
                        [amount |-> amt], [region |-> region])

\* The tax cell of a state under a dated column, added to the amount stored
TaxCellUpsertSum(T, region, state, date, amt) ==
    IF date = None \/ amt.coef = 0 THEN T
    ELSE UpdateOrCreate(T, [state_code |-> state, year |-> date.y, month |-> date.m,
                            region |-> region],
                        [amount |->
                            [coef |-> amt.coef
                                      + (IF \E r \in T : r.state_code = state /\ r.year = date.y
                                                         /\ r.month = date.m /\ r.region = region
                                         THEN (CHOOSE r \in T :
                                                  r.state_code = state /\ r.year = date.y
                                                  /\ r.month = date.m /\ r.region = region
                                              ).amount.coef
                                         ELSE 0),
                             scale |-> amt.scale]],
                        [region |-> region])

\* The tax cell of a state under a dated column: written when it is not zero
TaxCellUpsert(T, region, state, date, amt) ==
    IF date = None \/ amt.coef = 0 THEN T
    ELSE UpdateOrCreate(T, [state_code |-> state, year |-> date.y, month |-> date.m,
                            region |-> region],
                        [amount |-> amt], [region |-> region])

RECURSIVE TaxRowUpserts(_, _, _, _, _)
TaxRowUpserts(T, region, header, row, j) ==
    IF j > Len(header) THEN T
    ELSE TaxRowUpserts(TaxCellUpsert(T, region, row.state.str, header[j].date,
                                     row.amounts[j].dec0),
                       region, header, row, j + 1)

RECURSIVE TaxUpserts(_, _, _, _, _)
TaxUpserts(T, region, header, rows, i) ==
    IF i > Len(rows) THEN T
    ELSE TaxUpserts(IF rows[i].state.str = <<>> THEN T
                    ELSE TaxRowUpserts(T, region, header, rows[i], 1),
                    region, header, rows, i + 1)

ExcelCoerceTaxRows(rows) ==
    [i \in 1..Len(rows) |-> [state   |-> ExcelCoerced[rows[i].state],
                             amounts |-> ExcelCoerceRow(rows[i].amounts)]]

\* import_excel.Command._import_tax, one transaction.  A sheet of fewer than three
\* rows raises IndexError at the header read, before any write.
ImportTax(d, region, sheet) ==
    IF sheet.short THEN RolledBack(d)
    ELSE Done([d EXCEPT !.tax = TaxUpserts(@, region, ExcelCoerceRow(sheet.header),
                                           ExcelCoerceTaxRows(sheet.rows), 1)])

(***************************************************************************)
(* import_excel: the command                                               *)
(***************************************************************************)
NotOfRegion(T, region) == {r \in T : r.region # region}

OfRegion(tbl, region) == BagFilter(tbl, LAMBDA r : r.region = region)

\* --clear: every row of the region goes from the five aggregate tables and the
\* four order tables, each delete committed on its own
Cleared(d, region) ==
    [d EXCEPT !.total = NotOfRegion(@, region), !.b2b = NotOfRegion(@, region),
              !.b2c = NotOfRegion(@, region), !.brandSales = NotOfRegion(@, region),
              !.tax = NotOfRegion(@, region),
              !.orders = [p \in Platforms |-> @[p] (-) OfRegion(@[p], region)]]

RECURSIVE BrandsCreated(_, _, _)
BrandsCreated(T, region, brands) ==
    IF brands = {} THEN T
    ELSE BrandsCreated(GetOrCreate(T, [code |-> (CHOOSE b \in brands : TRUE).code,
                                       region |-> region],
                                   [name |-> (CHOOSE b \in brands : TRUE).name,
                                    name_kr |-> (CHOOSE b \in brands : TRUE).name_kr]),
                       region, brands \ {CHOOSE b \in brands : TRUE})

\* import_excel.Command._init_brands
InitBrands(d, region) == [d EXCEPT !.brand = BrandsCreated(@, region, RegionBrands(region))]

\* The database when the sheets are read: after --clear and _init_brands
Prepared(d, region, clear) ==
    InitBrands(IF clear THEN Cleared(d, region) ELSE d, region)

\* Whether handle reads the sheet
PnlSelected(region, sheet) ==
    sheet # None /\ (sheet.prefix = "pnl" \/ (sheet.prefix = "pnl_all" /\ region = "global"))

BrandSelected(region, sheet) == sheet # None /\ sheet.keyword \in BrandKeywords(region)

RawSelected(region, sheet) == sheet # None /\ sheet.channel \in RawChannels(region)

TaxSelected(region, sheet) == sheet # None /\ HasTaxSheet(region)

\* One sheet of the run: skipped once an earlier sheet has raised (the exception
\* leaves handle), read otherwise
AfterPnl(prev, region, wb) ==
    IF prev.failed \/ ~PnlSelected(region, wb.pnl) THEN prev
    ELSE ImportPnl(prev.db, region, wb.pnl)

AfterBrand(prev, region, wb) ==
    IF prev.failed \/ ~BrandSelected(region, wb.brand) THEN prev
    ELSE ImportBrandSales(prev.db, region, wb.brand)

AfterRaw(prev, region, wb) ==
    IF prev.failed \/ ~RawSelected(region, wb.raw) THEN prev
    ELSE ImportRawSheet(prev.db, region, wb.raw)

AfterTax(prev, region, wb) ==
    IF prev.failed \/ ~TaxSelected(region, wb.tax) THEN prev
    ELSE ImportTax(prev.db, region, wb.tax)

\* import_excel.Command.handle: --clear, the brands, then the P&L, brand-sales, RAW
\* and tax sheets, each sheet in its own transaction and handle in none
ExcelSheets(d, region, wb) ==
    AfterTax(AfterRaw(AfterBrand(AfterPnl(Done(d), region, wb), region, wb), region, wb),
             region, wb)

\* The order rows the run deleted and created, by table
ExcelEffects(d, inp, r) ==
    [db       |-> r.db,
     failed   |-> r.failed,
     deleted  |-> [p \in Platforms |->
                     IF inp.clear THEN OfRegion(d.orders[p], inp.region) ELSE EmptyBag],
     inserted |-> [p \in Platforms |->
                     r.db.orders[p] (-)
                     (IF inp.clear THEN d.orders[p] (-) OfRegion(d.orders[p], inp.region)
                      ELSE d.orders[p])]]

ExcelHandle(d, inp) ==
    ExcelEffects(d, inp, ExcelSheets(Prepared(d, inp.region, inp.clear), inp.region, inp.wb))

ExcelRun(inp) == Ran("import_excel", inp, ExcelHandle(db, inp))

\* One run of `manage.py import_excel FILE --region R [--clear]`
ImportExcel ==
    /\ calls < MaxCalls
    /\ \E region \in Regions, clear \in BOOLEAN :
        \E wb \in RegionWorkbooks(region) :
            ExcelRun([wb |-> wb, region |-> region, clear |-> clear])
    /\ calls' = calls + 1
    /\ UNCHANGED <<fnIn, fnOut, txns>>

(***************************************************************************)
(* Coercion helpers as operations                                          *)
(***************************************************************************)
NoCall == [fn |-> "none"]

CoerceDateRaw ==
    \E inp \in DateInputs :
        /\ fnIn' = [fn |-> "raw.safe_date", inp |-> inp, default |-> None]
        /\ fnOut' = RawSafeDate(inp.arg)
        /\ UNCHANGED <<db, last, calls, txns>>

CoerceDateExcel ==
    \E inp \in DateInputs :
        /\ fnIn' = [fn |-> "excel.safe_date", inp |-> inp, default |-> None]
        /\ fnOut' = ExcelSafeDate(inp.arg)
        /\ UNCHANGED <<db, last, calls, txns>>

CoerceDecimalRaw ==
    \E inp \in DecimalInputs, dflt \in SampleDefaults :
        /\ fnIn' = [fn |-> "raw.safe_decimal", inp |-> inp, default |-> dflt]
        /\ fnOut' = RawSafeDecimal(inp.arg, dflt)
        /\ UNCHANGED <<db, last, calls, txns>>

CoerceDecimalExcel ==
    \E inp \in DecimalInputs, dflt \in SampleDefaults :
        /\ fnIn' = [fn |-> "excel.safe_decimal", inp |-> inp, default |-> dflt]
        /\ fnOut' = ExcelSafeDecimal(inp.arg, dflt)
        /\ UNCHANGED <<db, last, calls, txns>>

InitIdle ==
    /\ fnIn = NoCall
    /\ fnOut = None
    /\ db = EmptyDb
    /\ last = NoCmd
    /\ calls = 0
    /\ txns = <<>>

NextDate == CoerceDateRaw \/ CoerceDateExcel

SpecDate == InitIdle /\ [][NextDate]_vars

NextDecimal == CoerceDecimalRaw \/ CoerceDecimalExcel

SpecDecimal == InitIdle /\ [][NextDecimal]_vars

Init == InitIdle

NextRaw == ImportShopify \/ ImportTiktok \/ ImportShopee \/ ImportQoo10

SpecRaw == InitIdle /\ [][NextRaw]_vars

NextExcel == ImportExcel

SpecExcel == InitIdle /\ [][NextExcel]_vars

Next == ImportShopify \/ ImportTiktok \/ ImportShopee \/ ImportQoo10 \/ ImportExcel

Spec == Init /\ [][Next]_vars

(***************************************************************************)
(* Two import_raw runs with --clear-date on one CSV platform, each in its  *)
(* own transaction (transaction.atomic) on PostgreSQL at READ COMMITTED.   *)
(* A statement reads the committed rows; a DELETE waits for a row another  *)
(* open transaction has deleted; nothing else is locked.                   *)
(***************************************************************************)
ConcRows == 1    \* data rows per file of a concurrent run

Txns == {1, 2}

CsvPlatforms == {"shopify", "tiktok"}

ConcFiles(platform) ==
    IF platform = "shopify" THEN SeqsUpTo(ShopifyRowUniverse, ConcRows)
    ELSE SeqsUpTo(TiktokRowUniverse, ConcRows)

\* A transaction that has not begun
IdleTxn == [pc |-> "idle", file |-> <<>>, deleted |-> EmptyBag, inserted |-> EmptyBag]

\* The input of run t: the platform's table is cleared by date range
ConcInput(t) == [platform |-> txns.platform, file |-> txns.run[t].file, clear |-> TRUE]

\* The importer of run t on the committed table
ConcOutcome(t) == RunImporter(db.orders[txns.platform], ConcInput(t))

\* Whether another open transaction holds the lock of a row of `rows`
RowLocked(t, rows) ==
    \E u \in Txns \ {t} :
        /\ txns.run[u].pc \in {"deleted", "inserted"}
        /\ DOMAIN rows \cap DOMAIN txns.run[u].deleted # {}

Stepped(t, pc, deleted, inserted) ==
    /\ txns' = [txns EXCEPT !.run[t] = [pc |-> pc, file |-> @.file,
                                        deleted |-> deleted, inserted |-> inserted]]
    /\ UNCHANGED <<fnIn, fnOut, db, last, calls>>

\* The tables before the runs: empty, or what one earlier import left
ConcBases(platform) ==
    {RawHandle(EmptyDb, [platform |-> platform, file |-> file, clear |-> FALSE]).db :
        file \in ConcFiles(platform)}

InitConc ==
    /\ fnIn = NoCall
    /\ fnOut = None
    /\ last = NoCmd
    /\ calls = 0
    /\ \E platform \in CsvPlatforms :
        /\ db \in ConcBases(platform)
        /\ txns = [platform |-> platform, base |-> db,
                   run |-> [t \in Txns |-> IdleTxn], order |-> <<>>]

\* handle enters the importer: the transaction begins
ConcBegin(t) ==
    /\ txns.run[t].pc = "idle"
    /\ \E file \in ConcFiles(txns.platform) :
        txns' = [txns EXCEPT !.run[t] = [IdleTxn EXCEPT !.pc = "begun", !.file = file]]
    /\ UNCHANGED <<fnIn, fnOut, db, last, calls>>

\* Pass 1: the date range of the file is deleted from the committed rows
ConcDeleteRows(t, rows) ==
    /\ ~RowLocked(t, rows)
    /\ Stepped(t, "deleted", rows, EmptyBag)

ConcDelete(t) ==
    /\ txns.run[t].pc = "begun"
    /\ ConcDeleteRows(t, ConcOutcome(t).deleted)

\* Pass 2: the file's records are bulk-created
ConcInsert(t) ==
    /\ txns.run[t].pc = "deleted"
    /\ Stepped(t, "inserted", txns.run[t].deleted, ConcOutcome(t).inserted)

\* The importer returns: the transaction commits
ConcCommit(t) ==
    /\ txns.run[t].pc = "inserted"
    /\ db' = [db EXCEPT !.orders[txns.platform] =
                 (@ (-) txns.run[t].deleted) (+) txns.run[t].inserted]
    /\ txns' = [txns EXCEPT !.run[t].pc = "committed", !.order = Append(@, t)]
    /\ UNCHANGED <<fnIn, fnOut, last, calls>>

NextConc == \E t \in Txns : ConcBegin(t) \/ ConcDelete(t) \/ ConcInsert(t) \/ ConcCommit(t)

SpecConc == InitConc /\ [][NextConc]_vars

(***************************************************************************)
(* Claims about the import commands                                        *)
(***************************************************************************)
RanExcel == last.cmd = "import_excel"

RanRaw == last.cmd = "import_raw"

RECURSIVE FirstTotals(_, _)
\* The position of the first row from i whose date column's text holds the totals
\* label (none: past the end)
FirstTotals(rows, i) ==
    IF i > Len(rows) THEN i
    ELSE IF ExcelCoerced[Col(rows[i], 1)].totals THEN i
    ELSE FirstTotals(rows, i + 1)

\* The dates of the rows of a sheet positioned before its first totals row
DatesBeforeTotals(rows) ==
    {ExcelCoerced[Col(rows[i], 1)].date : i \in 1..(FirstTotals(rows, 1) - 1)} \ {None}

\* The records of the region in table T that the last run created or changed
WrittenBy(T, region) == {r \in db[T] \ last.pre[T] : r.region = region}

\* C1: in a P&L sheet and in a brand-sales sheet, the totals row and every row
\* after it produce no record: each DailySalesTotal, DailySalesB2B, DailySalesB2C
\* and BrandDailySales record a run writes has the date of a row positioned
\* before the sheet's first totals row.
C1_TotalsRowEndsSheet ==
    RanExcel =>
        /\ PnlSelected(last.inp.region, last.inp.wb.pnl) =>
              \A T \in {"total", "b2b", "b2c"} :
                  \A r \in WrittenBy(T, last.inp.region) :
                      r.date \in DatesBeforeTotals(last.inp.wb.pnl.rows)
        /\ BrandSelected(last.inp.region, last.inp.wb.brand) =>
              \A r \in WrittenBy("brandSales", last.inp.region) :
                  r.date \in DatesBeforeTotals(last.inp.wb.brand.rows)

\* C2: for every platform and from any table state, running import_raw with
\* --clear-date a second time on the same file leaves the order tables as the
\* first run left them (same row count, same rows).
C2_RangeReplaceIdempotent ==
    (RanRaw /\ last.inp.clear) => RawHandle(db, last.inp).db = db

\* C3: running import_excel without --clear a second time on the same workbook
\* leaves every table as the first run left it (same row count, same values).
C3_WorkbookIdempotent ==
    (RanExcel /\ ~last.inp.clear) => ExcelHandle(db, last.inp).db = db

\* C4: when import_raw ends in failure (an exception or an error reported to the
\* caller), with or without --clear-date, every table holds exactly the rows it
\* held before the run.
C4_RawAllOrNothing ==
    (RanRaw /\ last.failed) => db = last.pre

\* C5: when import_excel fails at a sheet, every table is in the state it had
\* before the run, the rows of earlier sheets and the --clear deletions included.
C5_WorkbookRolledBack ==
    (RanExcel /\ last.failed) => db = last.pre

\* The order dates of a bag of order rows
OrderDates(rows) == {r.order_date : r \in DOMAIN rows}

\* The rows of tbl in [min, max] of the order dates of the rows `loaded`
InSpanOf(tbl, region, loaded) ==
    IF OrderDates(loaded) = {} THEN EmptyBag
    ELSE RowsInRange(tbl, region, MinDate(OrderDates(loaded)), MaxDate(OrderDates(loaded)))

\* C6: a Shopify or TikTok import with --clear-date deletes exactly the rows of
\* the platform's table for the region whose order date lies in [min, max] of
\* the dates of the records the same run inserts.
C6_DeletesSpanOfRecords ==
    (RanRaw /\ last.inp.clear /\ last.inp.platform \in {"shopify", "tiktok"}) =>
        last.deleted[last.inp.platform] =
            InSpanOf(last.pre.orders[last.inp.platform], "us",
                     last.inserted[last.inp.platform])

\* C7: across any sequence of import_excel and import_raw runs, an order row is
\* deleted only if its order date lies within the date span of the rows the
\* same run then loads into that table.
C7_DeletedOnlyWithinLoadedSpan ==
    (RanRaw \/ RanExcel) =>
        \A p \in Platforms :
            \A r \in DOMAIN last.deleted[p] :
                /\ OrderDates(last.inserted[p]) # {}
                /\ DateLE(MinDate(OrderDates(last.inserted[p])), r.order_date)
                /\ DateLE(r.order_date, MaxDate(OrderDates(last.inserted[p])))

\* The dates by which run t clears: those _collect_csv_dates finds in its file
ClearDates(t) ==
    IF txns.platform = "shopify"
    THEN CollectCsvDates(MapSeq(CoerceRows(txns.run[t].file), ShopifyDate))
    ELSE CollectCsvDates(MapSeq(CoerceRows(txns.run[t].file), TiktokDate))

\* The later of two dates, and the earlier
LaterDate(a, b) == IF DateLE(a, b) THEN b ELSE a

EarlierDate(a, b) == IF DateLE(a, b) THEN a ELSE b

OverlapLo == LaterDate(MinDate(ClearDates(1)), MinDate(ClearDates(2)))

OverlapHi == EarlierDate(MaxDate(ClearDates(1)), MaxDate(ClearDates(2)))

\* Both runs have committed and their date ranges overlap
BothCommittedOverlapping ==
    /\ \A t \in Txns : txns.run[t].pc = "committed"
    /\ \A t \in Txns : ClearDates(t) # {}
    /\ DateLE(OverlapLo, OverlapHi)

\* The table as the run that committed last would have left it alone
LastAlone ==
    RunImporter(txns.base.orders[txns.platform], ConcInput(txns.order[Len(txns.order)])).table

\* C8: when two concurrent import_raw runs with --clear-date on one platform
\* with overlapping date ranges have both committed, the table holds in the
\* overlapping range what the run that committed last would have produced
\* alone: no row of the other run, no duplicate.
C8_LastCommitWins ==
    BothCommittedOverlapping =>
        RowsInRange(db.orders[txns.platform], "us", OverlapLo, OverlapHi)
            = RowsInRange(LastAlone, "us", OverlapLo, OverlapHi)

(***************************************************************************)
(* What does hold of the import commands, next to the claims above         *)
(***************************************************************************)
\* A Shopee run whose file name carries no date: --clear-date deletes nothing
ShopeeRunWithoutFileDate ==
    RanRaw /\ last.inp.platform = "shopee"
           /\ FilenameTable[last.inp.file.filename].date = None

\* Range-replace is idempotent except for a Shopee file named without a date
RangeReplaceIdempotentWithFileDate ==
    (RanRaw /\ last.inp.clear /\ ~ShopeeRunWithoutFileDate) =>
        RawHandle(db, last.inp).db = db

\* The tables with a natural key
Aggregates(d) == [T \in {"total", "b2b", "b2c", "brandSales", "tax", "rate", "brand"} |-> d[T]]

\* A second import_excel run without --clear leaves the tables with a natural key
\* as the first left them
UpsertsIdempotent ==
    (RanExcel /\ ~last.inp.clear) =>
        Aggregates(ExcelHandle(db, last.inp).db) = Aggregates(db)

\* An import_raw run whose importer raises leaves every table as it was
RaisedLeavesTablesUnchanged ==
    (RanRaw /\ RunImporter(last.pre.orders[last.inp.platform], last.inp).raised) =>
        db = last.pre

\* Two runs one after the other: the second begins when the first has committed
SerialBegin(t) ==
    /\ \A u \in Txns \ {t} : txns.run[u].pc \in {"idle", "committed"}
    /\ ConcBegin(t)

NextSerial == \E t \in Txns : SerialBegin(t) \/ ConcDelete(t) \/ ConcInsert(t) \/ ConcCommit(t)

\* Under SpecSerial, C8_LastCommitWins holds
SpecSerial == InitConc /\ [][NextSerial]_vars

(***************************************************************************)
(* Claims about the coercion helpers                                       *)
(***************************************************************************)
IsDateCall == fnIn.fn \in {"raw.safe_date", "excel.safe_date"}

IsDecimalCall == fnIn.fn \in {"raw.safe_decimal", "excel.safe_decimal"}

\* C9: for every text in a supported date format, with or without a trailing
\* '+...' timezone suffix or '-HHMM' offset suffix, safe_date returns the calendar
\* date written in the text, and for a text in no format it returns None.
C9_DateRoundTrip ==
    IsDateCall => fnOut = fnIn.inp.date

\* C10: safe_decimal returns the exact value of every decimal-like text with
\* thousands separators and currency symbols, and the default (None when the
\* default is None) for '#DIV/0!', the empty string and None.
C10_DecimalExact ==
    IsDecimalCall =>
        IF fnIn.inp.value = None
        THEN fnOut = DefaultDecimal(fnIn.default)
        ELSE fnOut # None /\ DecEq(fnOut, fnIn.inp.value)

(***************************************************************************)
(* Platform detection from a file name: import_raw.detect_platform and the *)
(* copy views._detect_platform used by the upload view.  Korean fragments  *)
(* are written one token per syllable.                                     *)
(***************************************************************************)
KrShopify == <<"syo", "pi", "pa", "yi">>
KrShopee == <<"syo", "pi">>
KrTiktok == <<"tik", "tok">>
KrQoo10 == <<"kyu", "ten">>

T_orders_export == <<"o", "r", "d", "e", "r", "s", "_", "e", "x", "p", "o", "r", "t">>
T_shopify == <<"s", "h", "o", "p", "i", "f", "y">>
T_all_order_sp == <<"a", "l", "l", " ", "o", "r", "d", "e", "r">>
T_all_order_us == <<"a", "l", "l", "_", "o", "r", "d", "e", "r">>
T_tiktok == <<"t", "i", "k", "t", "o", "k">>
T_shopee == <<"s", "h", "o", "p", "e", "e">>
T_shop_stats == <<"s", "h", "o", "p", "-", "s", "t", "a", "t", "s">>
T_qoo10 == <<"q", "o", "o", "1", "0">>
T_transaction == <<"t", "r", "a", "n", "s", "a", "c", "t", "i", "o", "n">>

\* What a detection returns for a platform (None when there is none)
PlatformName(p) == [t |-> "platform", name |-> p]

\* detect_platform with the shopee test moved before the shopify test
DetectPlatformShopeeFirst(filename) ==
    LET fname == ToLower(filename) IN
    IF Contains(fname, T_shopee) \/ Contains(fname, T_shop_stats)
       \/ Contains(fname, KrShopee)
    THEN PlatformName("shopee")
    ELSE IF Contains(fname, T_orders_export) \/ Contains(fname, KrShopify)
            \/ Contains(fname, T_shopify)
    THEN PlatformName("shopify")
    ELSE IF Contains(fname, T_all_order_sp) \/ Contains(fname, T_all_order_us)
            \/ Contains(fname, KrTiktok) \/ Contains(fname, T_tiktok)
    THEN PlatformName("tiktok")
    ELSE IF Contains(fname, T_qoo10) \/ Contains(fname, T_transaction)
            \/ Contains(fname, KrQoo10)
    THEN PlatformName("qoo10")
    ELSE None

\* import_raw.detect_platform
DetectPlatform(filename) ==
    LET fname == ToLower(filename) IN
    IF Contains(fname, T_orders_export) \/ Contains(fname, KrShopify)
       \/ Contains(fname, T_shopify)
    THEN PlatformName("shopify")
    ELSE IF Contains(fname, T_all_order_sp) \/ Contains(fname, T_all_order_us)
            \/ Contains(fname, KrTiktok) \/ Contains(fname, T_tiktok)
    THEN PlatformName("tiktok")
    ELSE IF Contains(fname, T_shopee) \/ Contains(fname, T_shop_stats)
            \/ Contains(fname, KrShopee)
    THEN PlatformName("shopee")
    ELSE IF Contains(fname, T_qoo10) \/ Contains(fname, T_transaction)
            \/ Contains(fname, KrQoo10)
    THEN PlatformName("qoo10")
    ELSE None

\* views._detect_platform
ViewDetectPlatform(filename) ==
    LET fname == ToLower(filename) IN
    IF Contains(fname, T_orders_export) \/ Contains(fname, KrShopify)
       \/ Contains(fname, T_shopify)
    THEN PlatformName("shopify")
    ELSE IF Contains(fname, T_all_order_sp) \/ Contains(fname, T_all_order_us)
            \/ Contains(fname, KrTiktok) \/ Contains(fname, T_tiktok)
    THEN PlatformName("tiktok")
    ELSE IF Contains(fname, T_shopee) \/ Contains(fname, T_shop_stats)
            \/ Contains(fname, KrShopee)
    THEN PlatformName("shopee")
    ELSE IF Contains(fname, T_qoo10) \/ Contains(fname, T_transaction)
            \/ Contains(fname, KrQoo10)
    THEN PlatformName("qoo10")
    ELSE None

\* The file names detection is run on: up to MaxPieces pieces, each a fragment
\* as written, a fragment in capitals, a near miss or a filler
MaxPieces == 2

NamePieces ==
    {T_orders_export, T_shopify, KrShopify, T_all_order_sp, T_all_order_us, KrTiktok,
     T_tiktok, T_shopee, T_shop_stats, KrShopee, T_qoo10, T_transaction, KrQoo10}
    \cup {ToUpper(T_shopify), ToUpper(T_tiktok), ToUpper(T_shopee), ToUpper(T_qoo10),
          <<"S", "h", "o", "p", "-", "S", "t", "a", "t", "s">>}
    \cup {<<"a", "l", "l", "-", "o", "r", "d", "e", "r">>, <<"s", "h", "o", "p">>,
          <<"syo">>, <<"pi">>, <<"tok", "tik">>, <<"q", "o", "o">>,
          <<"_">>, <<".", "c", "s", "v">>}

RECURSIVE Concat(_)
Concat(pieces) == IF pieces = <<>> THEN <<>> ELSE Head(pieces) \o Concat(Tail(pieces))

DetectFilenames == {Concat(ps) : ps \in SeqsUpTo(NamePieces, MaxPieces)}

DetectRaw ==
    \E f \in DetectFilenames :
        /\ fnIn = NoCall
        /\ fnIn' = [fn |-> "raw.detect_platform", inp |-> f, default |-> None]
        /\ fnOut' = DetectPlatform(f)
        /\ UNCHANGED <<db, last, calls, txns>>

DetectView ==
    \E f \in DetectFilenames :
        /\ fnIn = NoCall
        /\ fnIn' = [fn |-> "views._detect_platform", inp |-> f, default |-> None]
        /\ fnOut' = ViewDetectPlatform(f)
        /\ UNCHANGED <<db, last, calls, txns>>

\* One detection per behaviour: the function keeps no state between calls
NextDetect == DetectRaw \/ DetectView

SpecDetect == InitIdle /\ [][NextDetect]_vars

IsDetectCall == fnIn.fn \in {"raw.detect_platform", "views._detect_platform"}

\* The platforms in the order the spec gives, and the fragments of each
PlatformOrder == <<"shopify", "tiktok", "shopee", "qoo10">>

PlatformFragments(p) ==
    CASE p = "shopify" -> {T_orders_export, KrShopify, T_shopify}
      [] p = "tiktok"  -> {T_all_order_sp, T_all_order_us, KrTiktok, T_tiktok}
      [] p = "shopee"  -> {T_shopee, T_shop_stats, KrShopee}
      [] p = "qoo10"   -> {T_qoo10, T_transaction, KrQoo10}

\* The positions in PlatformOrder of the platforms a fragment of which is in the
\* lower-cased name
MatchingPlatforms(filename) ==
    {i \in 1..Len(PlatformOrder) :
        \E frag \in PlatformFragments(PlatformOrder[i]) : Contains(ToLower(filename), frag)}

FirstMatchingPlatform(filename) ==
    LET hits == MatchingPlatforms(filename) IN
    IF hits = {} THEN None
    ELSE PlatformName(PlatformOrder[CHOOSE i \in hits : \A j \in hits : i <= j])

\* C11: detect_platform returns the first platform, in the order shopify, tiktok,
\* shopee, qoo10, one of whose fragments is a substring of the lower-cased file
\* name, None when no fragment matches, and the copy of the upload view returns
\* the same for every file name.
C11_FirstMatchingPlatformWins ==
    IsDetectCall =>
        /\ fnOut = FirstMatchingPlatform(fnIn.inp)
        /\ DetectPlatform(fnIn.inp) = ViewDetectPlatform(fnIn.inp)

\* A name holding fragments of several platforms has been given to the detection
C11_SeveralPlatformsMatch ==
    /\ IsDetectCall
    /\ Cardinality(MatchingPlatforms(fnIn.inp)) >= 2
    /\ Contains(fnIn.inp, KrShopify)
    /\ fnOut = PlatformName("shopify")

(***************************************************************************)
(* import_raw: the whole command, from its options.  The platform comes    *)
(* from --platform or from the file name; the file may be missing.         *)
(***************************************************************************)
HandleRows == 1    \* data rows per file given to the whole command

CsvFilename(platform) ==
    IF platform = "shopify" THEN T_orders_export \o <<".", "c", "s", "v">>
    ELSE T_all_order_sp \o <<".", "c", "s", "v">>

\* The name the upload view gives a temporary file
UploadFilename == <<"u", "p", "l", "o", "a", "d", "_", "1", "a", ".", "c", "s", "v">>

CommandFiles(platform) ==
    CASE platform = "shopify" -> SeqsUpTo(ShopifyRowUniverse, HandleRows)
      [] platform = "tiktok"  -> SeqsUpTo(TiktokRowUniverse, HandleRows)
      [] platform = "shopee"  -> {f \in ShopeeFiles : /\ Len(f.placed_products) <= HandleRows
                                                       /\ f.paid_products = <<>>}
      [] platform = "qoo10"   -> {f \in Qoo10Files : Len(f.rows) <= HandleRows}

\* The names a file of a platform is imported under
CommandNames(platform, file) ==
    IF platform \in {"shopify", "tiktok"}
    THEN {CsvFilename(platform), UploadFilename}
    ELSE {file.filename}

\* A run that raised CommandError before any importer was called
CommandError(d) ==
    [db       |-> d,
     failed   |-> TRUE,
     deleted  |-> [p \in Platforms |-> EmptyBag],
     inserted |-> [p \in Platforms |-> EmptyBag]]

\* options['platform'] or detect_platform(filename)
ResolvePlatform(opt) ==
    IF opt.platform # None THEN opt.platform ELSE DetectPlatform(opt.filename)

\* handle that takes an undetected platform to be shopify
HandleDefaulting(d, opt) ==
    IF ~opt.exists THEN CommandError(d)
    ELSE RawHandle(d, [platform |-> IF ResolvePlatform(opt) = None THEN "shopify"
                                    ELSE ResolvePlatform(opt).name,
                       file |-> opt.file, clear |-> opt.clear])

\* import_raw.Command.handle
Handle(d, opt) ==
    IF ResolvePlatform(opt) = None THEN CommandError(d)
    ELSE IF ~opt.exists THEN CommandError(d)
    ELSE RawHandle(d, [platform |-> ResolvePlatform(opt).name,
                       file |-> opt.file, clear |-> opt.clear])

\* One run of `manage.py import_raw FILE [--platform P] [--clear-date]`
ImportRawCommand ==
    /\ calls < MaxCalls
    /\ \E platform \in Platforms :
        \E file \in CommandFiles(platform), option \in {None, PlatformName(platform)},
           exists \in BOOLEAN, clear \in BOOLEAN :
            \E filename \in CommandNames(platform, file) :
                Ran("import_raw_file",
                    [platform |-> option, filename |-> filename, exists |-> exists,
                     file |-> file, clear |-> clear],
                    Handle(db, [platform |-> option, filename |-> filename,
                                exists |-> exists, file |-> file, clear |-> clear]))
    /\ calls' = calls + 1
    /\ UNCHANGED <<fnIn, fnOut, txns>>

NextCommand == ImportRawCommand

SpecCommand == InitIdle /\ [][NextCommand]_vars

RanCommand == last.cmd = "import_raw_file"

\* No platform was given and no fragment of any platform is in the file name
PlatformUnknown(inp) == inp.platform = None /\ MatchingPlatforms(inp.filename) = {}

\* The run is a Qoo10 import of a file whose name holds no date
Qoo10WithoutDate(inp) ==
    /\ ~PlatformUnknown(inp)
    /\ inp.exists
    /\ ResolvePlatform(inp) = PlatformName("qoo10")
    /\ ExtractDateFromFilename(inp.filename) = None

PreconditionFails(inp) ==
    PlatformUnknown(inp) \/ ~inp.exists \/ Qoo10WithoutDate(inp)

NoOrderWritten ==
    /\ db = last.pre
    /\ \A p \in Platforms : last.deleted[p] = EmptyBag /\ last.inserted[p] = EmptyBag

\* C12: when no platform is given and none is detected from the file name, when
\* the file does not exist, or when a Qoo10 file name holds no YYYYMMDD date, the
\* command fails and no order row is inserted or deleted, with or without
\* --clear-date.
C12_PreconditionFailureWritesNothing ==
    (RanCommand /\ PreconditionFails(last.inp)) => (last.failed /\ NoOrderWritten)

\* A Qoo10 import with --clear-date of a file without a date in its name has run
\* on a table that holds Qoo10 orders
C12_Qoo10WithoutDateOnFilledTable ==
    /\ RanCommand
    /\ Qoo10WithoutDate(last.inp)
    /\ last.inp.clear
    /\ last.inp.file.rows # <<>>
    /\ last.pre.orders["qoo10"] # EmptyBag

(***************************************************************************)
(* import_excel on workbooks that hold a tax sheet only: two header cells  *)
(* from column 2 and up to MaxTaxRows state rows of two amounts.           *)
(***************************************************************************)
MaxTaxRows == 2

TaxHeaders ==
    {<<DtCell(Day(1)), NextMonthCell>>, <<DtCell(Day(1)), DtCell(Day(2))>>,
     <<DtCell(Day(1)), TotalsCell>>}

TaxAmounts == {NumCell(0, 0), NumCell(5, 0), None}

TaxStateRows ==
    {TaxRow(s, <<a, b>>) :
        s \in {StrCell(<<"C", "A">>), StrCell(<<"N", "Y">>), None},
        a \in TaxAmounts, b \in TaxAmounts}

TaxWorkbooks ==
    {Workbook(None, None, None, TaxSheet(h, rows)) :
        h \in TaxHeaders, rows \in SeqsUpTo(TaxStateRows, MaxTaxRows)}

\* The database after `import_excel --region us` of a tax sheet with 7 for CA in a
\* March column
TaxSeeded ==
    ExcelHandle(EmptyDb,
                [wb |-> Workbook(None, None, None,
                                 TaxSheet(<<DtCell(Day(1))>>,
                                          <<TaxRow(StrCell(<<"C", "A">>), <<NumCell(7, 0)>>)>>)),
                 region |-> "us", clear |-> FALSE]).db

InitTax ==
    /\ fnIn = NoCall
    /\ fnOut = None
    /\ db \in {EmptyDb, TaxSeeded}
    /\ last = NoCmd
    /\ calls = 0
    /\ txns = <<>>

\* One run of import_excel on a workbook with a tax sheet only
ImportTaxWorkbook ==
    /\ last = NoCmd
    /\ \E region \in {"us", "cn"}, clear \in BOOLEAN, wb \in TaxWorkbooks :
        ExcelRun([wb |-> wb, region |-> region, clear |-> clear])
    /\ calls' = calls + 1
    /\ UNCHANGED <<fnIn, fnOut, txns>>

NextTax == ImportTaxWorkbook

SpecTax == InitTax /\ [][NextTax]_vars

\* The run has read a tax sheet
RanTaxSheet ==
    /\ RanExcel
    /\ last.inp.wb.tax # None
    /\ HasTaxSheet(last.inp.region)
    /\ ~last.inp.wb.tax.short

IsDated(c) == c # None /\ c.t = "dt"

IsNonZero(c) == c # None /\ c.t = "num" /\ c.coef # 0

IsState(c) == c # None /\ c.t = "str" /\ c.s # <<>>

\* The non-zero cells of the rows that name a state, under a dated header column
TaxNonZeroCells(sheet) ==
    {c \in (1..Len(sheet.rows)) \X (1..Len(sheet.header)) :
        /\ IsState(sheet.rows[c[1]].state)
        /\ IsDated(sheet.header[c[2]])
        /\ IsNonZero(sheet.rows[c[1]].amounts[c[2]])}

TaxKeyOf(sheet, c, region) ==
    [state_code |-> sheet.rows[c[1]].state.s, year |-> sheet.header[c[2]].d.y,
     month |-> sheet.header[c[2]].d.m, region |-> region]

TaxAmountOf(sheet, c) ==
    [amount |-> [coef |-> sheet.rows[c[1]].amounts[c[2]].coef,
                 scale |-> sheet.rows[c[1]].amounts[c[2]].scale]]

\* TaxByState when the sheet is read: as before the run, less the region's rows
\* under --clear
TaxBefore == {r \in last.pre.tax : ~(last.inp.clear /\ r.region = last.inp.region)}

SameTaxKey(r, key) ==
    /\ r.state_code = key.state_code
    /\ r.year = key.year
    /\ r.month = key.month
    /\ r.region = key.region

OneTaxRecord(sheet, c, region) ==
    db.tax = {r \in TaxBefore : ~SameTaxKey(r, TaxKeyOf(sheet, c, region))}
             \cup {TaxAmountOf(sheet, c) @@ TaxKeyOf(sheet, c, region)}

\* C13: a tax sheet whose state rows hold only zero or empty amounts under the
\* dated header columns writes no TaxByState record, and a sheet with exactly
\* one non-zero such cell writes exactly one record, with the key (region,
\* state_code, year, month) of the cell's row and column and the cell's amount.
C13_TaxWrittenOnlyWhenNonZero ==
    RanTaxSheet =>
        /\ TaxNonZeroCells(last.inp.wb.tax) = {} => db.tax = TaxBefore
        /\ Cardinality(TaxNonZeroCells(last.inp.wb.tax)) = 1 =>
             OneTaxRecord(last.inp.wb.tax,
                          CHOOSE c \in TaxNonZeroCells(last.inp.wb.tax) : TRUE,
                          last.inp.region)

\* A sheet with one non-zero cell among zero and empty cells has been imported
\* over a TaxByState row of the same key
C13_OneNonZeroCellOverExistingRow ==
    /\ RanTaxSheet
    /\ ~last.inp.clear
    /\ Len(last.inp.wb.tax.rows) = 2
    /\ Cardinality(TaxNonZeroCells(last.inp.wb.tax)) = 1
    /\ \E r \in last.pre.tax :
         /\ SameTaxKey(r, TaxKeyOf(last.inp.wb.tax,
                                   CHOOSE c \in TaxNonZeroCells(last.inp.wb.tax) : TRUE,
                                   last.inp.region))
         /\ r.amount.coef = 7
    /\ \E i \in 1..2 : IsState(last.inp.wb.tax.rows[i].state)
                       /\ last.inp.wb.tax.rows[i].amounts[1] = NumCell(0, 0)

(***************************************************************************)
(* Claims about the amounts of order records                               *)
(***************************************************************************)
\* A source cell that is missing or empty
Blank(cell) == cell = None \/ (cell.t = "str" /\ Strip(cell.s) = <<>>)

InsertedOrders(platform) == BagToSet(last.inserted[platform])

ShopifyAbsentAmountsNull(rows) ==
    \A r \in InsertedOrders("shopify"), i \in 1..Len(rows) :
        (r.order_name = RawSafeStr(rows[i].name) /\ r.brand = RawSafeStr(rows[i].vendor)
         /\ Blank(rows[i].total) /\ Blank(rows[i].subtotal))
            => r.final_amount = None

TiktokAbsentAmountsNull(rows) ==
    \A r \in InsertedOrders("tiktok"), i \in 1..Len(rows) :
        r.order_id = RawSafeStr(rows[i].order_id) =>
            /\ (Blank(rows[i].sku_subtotal) /\ Blank(rows[i].order_amount))
                   => r.final_amount = None
            /\ Blank(rows[i].unit_price) => r.unit_price = None
            /\ Blank(rows[i].order_amount) => r.order_amount = None
            /\ Blank(rows[i].refund) => r.refund_amount = None

DailySummaryText == <<"D", "a", "i", "l", "y", " ", "S", "u", "m", "m", "a", "r", "y">>

ShopeeDailyAbsentAmountsNull(placed) ==
    \A r \in InsertedOrders("shopee") :
        (placed # None /\ r.order_status = DailySummaryText) =>
            /\ Blank(placed.sales) => (r.final_amount = None /\ r.order_amount = None)
            /\ Blank(placed.refunded) => r.refund_amount = None

ShopeeProductAbsentAmountsNull(rows) ==
    \A r \in InsertedOrders("shopee"), i \in 1..Len(rows) :
        (r.order_status # DailySummaryText /\ r.order_id = RawCoerced[rows[i].item_id].text
         /\ Blank(rows[i].sales))
            => (r.final_amount = None /\ r.order_amount = None)

Qoo10AbsentAmountsNull(rows) ==
    \A r \in InsertedOrders("qoo10"), i \in 1..Len(rows) :
        r.order_id = RawSafeStr(rows[i].product_id) =>
            /\ Blank(rows[i].final) => r.final_amount = None
            /\ Blank(rows[i].amount) => r.order_amount = None
            /\ Blank(rows[i].refund) => r.refund_amount = None

FileAbsentAmountsNull(platform, file) ==
    CASE platform = "shopify" -> ShopifyAbsentAmountsNull(file)
      [] platform = "tiktok"  -> TiktokAbsentAmountsNull(file)
      [] platform = "shopee"  -> /\ ShopeeDailyAbsentAmountsNull(file.placed)
                                 /\ ShopeeProductAbsentAmountsNull(file.placed_products)
                                 /\ ShopeeProductAbsentAmountsNull(file.paid_products)
      [] platform = "qoo10"   -> Qoo10AbsentAmountsNull(file.rows)

\* The final amount of a RAW sheet row is read from column 2
SheetAbsentAmountsNull(sheet) ==
    \A r \in InsertedOrders(sheet.channel), i \in 1..Len(sheet.rows) :
        (Len(sheet.rows[i]) > 3
         /\ r.brand = ExcelSafeStr(Col(sheet.rows[i], 1))
         /\ r.order_date = ExcelSafeDate(Col(sheet.rows[i], 3))
         /\ Blank(Col(sheet.rows[i], 2)))
            => r.final_amount = None

\* C14: in every order record an import writes, from a platform file or from a
\* RAW sheet of a workbook, an amount that may be absent (final_amount,
\* unit_price, order_amount, refund_amount) is null, not zero, when its source
\* cell is missing or empty.
C14_AbsentAmountStoredNull ==
    /\ RanRaw => FileAbsentAmountsNull(last.inp.platform, last.inp.file)
    /\ (RanExcel /\ last.inp.wb.raw # None) => SheetAbsentAmountsNull(last.inp.wb.raw)

(***************************************************************************)
(* import_excel on workbooks that hold a P&L sheet only, whose rows differ *)
(* in the operating-margin cells (column 12 of the total block, column 42  *)
(* of the B2C block); row i has the date Day(i).                           *)
(***************************************************************************)
MaxMarginRows == 1

MarginCutWidth == 42    \* a sheet cut after column 41: it has no column 42

MarginRowChoices == [total : MarginCells, b2c : MarginCells]

MarginRow(width, i, choice) ==
    SheetRow(width, 1 :> DtCell(Day(i)) @@ 12 :> choice.total.cell @@ 42 :> choice.b2c.cell)

MarginSheet(width, choices) ==
    [prefix |-> "pnl", month_str |-> MonthText, rate |-> NumCell(1400, 0),
     rows |-> [i \in 1..Len(choices) |-> MarginRow(width, i, choices[i])]]

\* What the rows report: for the B2C block nothing when the sheet has no column 42
MarginsReported(width, choices) ==
    [i \in 1..Len(choices) |->
        [total |-> choices[i].total.reported,
         b2c   |-> IF width > 42 THEN choices[i].b2c.reported ELSE None]]

MarginSheetChoices ==
    {ch \in SeqsUpTo(MarginRowChoices, MaxMarginRows) : ch # <<>>}

\* The database after `import_excel --region us` of the good P&L sheet
MarginSeeded ==
    ExcelHandle(EmptyDb, [wb |-> Workbook(GoodPnlSheet, None, None, None),
                          region |-> "us", clear |-> FALSE]).db

InitMargin ==
    /\ fnIn = NoCall
    /\ fnOut = None
    /\ db \in {EmptyDb, MarginSeeded}
    /\ last = NoCmd
    /\ calls = 0
    /\ txns = <<>>

\* One run of import_excel on a workbook with a P&L sheet only
ImportPnlWorkbook ==
    /\ last = NoCmd
    /\ \E region \in {"us", "cn"}, clear \in BOOLEAN, width \in {PnlWidth, MarginCutWidth},
          choices \in MarginSheetChoices :
        ExcelRun([wb |-> Workbook(MarginSheet(width, choices), None, None, None),
                  region |-> region, clear |-> clear,
                  reported |-> MarginsReported(width, choices)])
    /\ calls' = calls + 1
    /\ UNCHANGED <<fnIn, fnOut, txns>>

NextMargin == ImportPnlWorkbook

SpecMargin == InitMargin /\ [][NextMargin]_vars

RanMargins == RanExcel /\ ~last.failed

\* The table has a row of the day and the run's region, and its margin is m
MarginIs(T, i, m) ==
    /\ \E r \in T : r.date = Day(i) /\ r.region = last.inp.region
    /\ \A r \in T : (r.date = Day(i) /\ r.region = last.inp.region)
                        => DecEq(r.operating_margin, m)

\* C15: after a P&L import the operating_margin of the day's DailySalesTotal and
\* DailySalesB2C rows is null when the source cell is empty, missing, '#DIV/0!',
\* no number, or beyond the sheet's width, and the reported value otherwise; it
\* is never set to zero for an absent value.
C15_MarginNullOrReported ==
    RanMargins =>
        \A i \in 1..Len(last.inp.reported) :
            /\ MarginIs(db.total, i, last.inp.reported[i].total)
            /\ MarginIs(db.b2c, i, last.inp.reported[i].b2c)

\* A sheet with '#DIV/0!' in column 12 and no column 42 has been imported over
\* rows of the same day that had a margin
C15_AbsentMarginOverExistingRows ==
    /\ RanMargins
    /\ ~last.inp.clear
    /\ Col(last.inp.wb.pnl.rows[1], 12) = StrCell(DivZeroText)
    /\ Len(last.inp.wb.pnl.rows[1]) = MarginCutWidth
    /\ \E r \in last.pre.total :
         r.date = Day(1) /\ r.region = last.inp.region /\ r.operating_margin # None
    /\ \E r \in last.pre.b2c :
         r.date = Day(1) /\ r.region = last.inp.region /\ r.operating_margin # None

(***************************************************************************)
(* Claims about the dates of records                                       *)
(***************************************************************************)
AllRecordsDated ==
    /\ \A r \in db.total \cup db.b2b \cup db.b2c \cup db.brandSales : r.date # None
    /\ \A p \in Platforms : \A r \in BagToSet(db.orders[p]) : r.order_date # None

\* The importer of the run's file raised
ImporterRaised == RunImporter(last.pre.orders[last.inp.platform], last.inp).raised

\* The rows of a CSV file or of a Shopee workbook are each read or skipped: the
\* importer raises for none of them
RowsReadOrSkipped ==
    (RanRaw /\ last.inp.platform \in {"shopify", "tiktok", "shopee"}) => ~ImporterRaised

\* C16: every record of the aggregate tables, of BrandDailySales and of the four
\* order tables has a date, and a source row whose date does not parse is
\* skipped without an error.
C16_CommittedOnlyWithDate == AllRecordsDated /\ RowsReadOrSkipped

(***************************************************************************)
(* import_raw on CSV files whose rows differ in the two amount columns the *)
(* final amount is taken from: Total and Subtotal (Shopify), 'SKU Subtotal *)
(* After Discount' and 'Order Amount' (TikTok).  Row i has the i-th order  *)
(* number.                                                                 *)
(***************************************************************************)
MaxAmountRows == 1

AmountChoices == [primary : AmountCells, secondary : AmountCells]

AmountOrderIds(platform) ==
    IF platform = "shopify" THEN <<<<"#", "1">>, <<"#", "2">>, <<"#", "3">>>>
    ELSE <<<<"7", "7">>, <<"7", "8">>, <<"7", "9">>>>

AmountRow(platform, i, choice) ==
    IF platform = "shopify"
    THEN [paid |-> Txt(DayText(Day(1))), created |-> Empty,
          name |-> Txt(AmountOrderIds(platform)[i]), vendor |-> Empty,
          total |-> choice.primary.cell, subtotal |-> choice.secondary.cell,
          lineitem |-> Txt(<<"A">>)]
    ELSE [created |-> Txt(DayText(Day(1))), paid |-> Empty,
          order_id |-> Txt(AmountOrderIds(platform)[i]), sku |-> Empty,
          product |-> Txt(<<"x">>), sku_subtotal |-> choice.primary.cell,
          order_amount |-> choice.secondary.cell, unit_price |-> Empty, refund |-> Empty]

AmountFile(platform, choices) ==
    [i \in 1..Len(choices) |-> AmountRow(platform, i, choices[i])]

AmountsReported(choices) ==
    [i \in 1..Len(choices) |-> [primary   |-> choices[i].primary.reported,
                                secondary |-> choices[i].secondary.reported]]

\* One run of import_raw on such a file
ImportAmountFile ==
    /\ last = NoCmd
    /\ \E platform \in CsvPlatforms, clear \in BOOLEAN,
          choices \in SeqsUpTo(AmountChoices, MaxAmountRows) :
        RawRun([platform |-> platform, file |-> AmountFile(platform, choices),
                clear |-> clear, reported |-> AmountsReported(choices)])
    /\ calls' = calls + 1
    /\ UNCHANGED <<fnIn, fnOut, txns>>

NextAmount == ImportAmountFile

SpecAmount == InitIdle /\ [][NextAmount]_vars

OrderNumber(platform, r) == IF platform = "shopify" THEN r.order_name ELSE r.order_id

\* The run wrote an order with the number, and its final amount is v
FinalAmountIs(platform, number, v) ==
    /\ \E r \in InsertedOrders(platform) : OrderNumber(platform, r) = number
    /\ \A r \in InsertedOrders(platform) :
         OrderNumber(platform, r) = number => DecEq(r.final_amount, v)

\* C17: the final amount of a Shopify order is Total when Total parses (zero
\* included) and Subtotal otherwise; that of a TikTok order is 'SKU Subtotal
\* After Discount' when it parses and 'Order Amount' otherwise; it is null only
\* when neither parses, and it is never the sum of the two.
C17_FinalAmountFallback ==
    (RanRaw /\ last.inp.file # <<>>) =>
        \A i \in 1..Len(last.inp.reported) :
            FinalAmountIs(last.inp.platform, AmountOrderIds(last.inp.platform)[i],
                          IF last.inp.reported[i].primary # None
                          THEN last.inp.reported[i].primary
                          ELSE last.inp.reported[i].secondary)

\* A Shopify file with a row whose Total is 0 and whose Subtotal is 5.50 has
\* been imported
C17_ZeroTotalWithSubtotal ==
    /\ RanRaw
    /\ last.inp.platform = "shopify"
    /\ Len(last.inp.file) = 1
    /\ last.inp.file[1].total = Txt(<<"0">>)
    /\ last.inp.file[1].subtotal = Txt(<<"5", ".", "5", "0">>)
    /\ ~last.failed

(***************************************************************************)
(* Sequences of import_excel runs on workbooks that give one natural key   *)
(* different values: two P&L sheets of the same month and day that differ  *)
(* in the exchange rate and the margins, two brand-sales sheets and two    *)
(* tax sheets that differ in one amount.                                   *)
(***************************************************************************)
KeyPnlSheets ==
    {GoodPnlSheet,
     PnlSheet("pnl", MonthText, None, PnlWidth, <<DtCell(Day(1))>>),
     MarginSheet(PnlWidth, <<[total |-> [cell |-> None, reported |-> None],
                              b2c   |-> [cell |-> NumCell(0, 0),
                                         reported |-> [coef |-> 0, scale |-> 0]]]>>)}

KeyBrandSheets ==
    {[keyword |-> KrDoctorblet,
      rows |-> <<SheetRow(BrandWidth, 1 :> DtCell(Day(1)) @@ 2 :> StrCell(KrDoctorblet))>>],
     [keyword |-> KrDoctorblet,
      rows |-> <<SheetRow(BrandWidth, 1 :> DtCell(Day(1)) @@ 2 :> StrCell(KrDoctorblet)
                                      @@ 6 :> NumCell(5, 0)),
                 SheetRow(BrandWidth, 1 :> DtCell(Day(1)) @@ 2 :> StrCell(KrDoctorblet)
                                      @@ 6 :> NumCell(7, 0))>>]}

KeyTaxSheets ==
    {TaxSheet(<<DtCell(Day(1)), DtCell(Day(2))>>,
              <<TaxRow(StrCell(<<"C", "A">>), <<NumCell(a, 0), NumCell(b, 0)>>)>>) :
        a \in {5, 7}, b \in {0, 5}}

KeyWorkbooks ==
    {Workbook(p, b, None, t) :
        p \in KeyPnlSheets \cup {None}, b \in KeyBrandSheets \cup {None},
        t \in KeyTaxSheets \cup {None}}

\* One run of `manage.py import_excel FILE --region R [--clear]` on such a workbook
ImportKeyWorkbook ==
    /\ calls < MaxCalls
    /\ \E region \in Regions, clear \in BOOLEAN, wb \in KeyWorkbooks :
        ExcelRun([wb |-> wb, region |-> region, clear |-> clear])
    /\ calls' = calls + 1
    /\ UNCHANGED <<fnIn, fnOut, txns>>

NextKeys == ImportKeyWorkbook

SpecKeys == InitIdle /\ [][NextKeys]_vars

\* At most one row of T for each value of the fields `key`
UniqueBy(T, key) ==
    \A r \in T, s \in T : (\A f \in key : r[f] = s[f]) => r = s

\* C18: after any sequence of import_excel runs there is at most one row per
\* (date, region) in DailySalesTotal, DailySalesB2B and DailySalesB2C, per (date,
\* brand, region) in BrandDailySales, per (state_code, year, month, region) in
\* TaxByState, per (year, month, region) in ExchangeRate and per (code, region) in
\* Brand: a source row whose key exists updates the row.
C18_NaturalKeysUnique ==
    /\ UniqueBy(db.total, {"date", "region"})
    /\ UniqueBy(db.b2b, {"date", "region"})
    /\ UniqueBy(db.b2c, {"date", "region"})
    /\ UniqueBy(db.brandSales, {"date", "brand", "region"})
    /\ UniqueBy(db.tax, {"state_code", "year", "month", "region"})
    /\ UniqueBy(db.rate, {"year", "month", "region"})
    /\ UniqueBy(db.brand, {"code", "region"})

\* The value in T' that has replaced another value of the same key in T
Replaced(T, U, key) ==
    \E r \in T, s \in U : (\A f \in key : r[f] = s[f]) /\ r # s

\* A run without --clear has met, in each keyed table it writes, a row of the key
\* with other values
C18_RowsOfEveryTableUpdated ==
    /\ RanExcel
    /\ ~last.inp.clear
    /\ Replaced(last.pre.total, db.total, {"date", "region"})
    /\ Replaced(last.pre.b2c, db.b2c, {"date", "region"})
    /\ Replaced(last.pre.brandSales, db.brandSales, {"date", "brand", "region"})
    /\ Replaced(last.pre.tax, db.tax, {"state_code", "year", "month", "region"})
    /\ Replaced(last.pre.rate, db.rate, {"year", "month", "region"})
    /\ \E r \in last.pre.brand : r.region = last.inp.region

(***************************************************************************)
(* Sequences of imports over a database in which a Brand row may have been *)
(* renamed in the admin site.                                              *)
(***************************************************************************)
\* The us brand doctorblet under another name (BrandAdmin lets the names be edited)
RenamedBrand ==
    [code |-> "doctorblet", region |-> "us", name |-> "Doctor Blet",
     name_kr |-> <<"d", "b">>]

BrandRenamed == [EmptyDb EXCEPT !.brand = {RenamedBrand}]

\* No sheet, the good P&L sheet, a P&L sheet cut after column 3 (its import
\* raises) and a brand-sales sheet
BrandWorkbooks ==
    {Workbook(None, None, None, None),
     Workbook(GoodPnlSheet, None, None, None),
     Workbook(PnlSheet("pnl", MonthText, NumCell(1400, 0), NarrowWidth, <<DtCell(Day(1))>>),
              None, None, None),
     Workbook(None,
              [keyword |-> KrDoctorblet,
               rows |-> <<SheetRow(BrandWidth,
                                   1 :> DtCell(Day(1)) @@ 2 :> StrCell(KrDoctorblet))>>],
              None, None)}

InitBrandTable ==
    /\ fnIn = NoCall
    /\ fnOut = None
    /\ db \in {EmptyDb, BrandRenamed}
    /\ last = NoCmd
    /\ calls = 0
    /\ txns = <<>>

\* One run of `manage.py import_excel FILE --region R [--clear]` on such a workbook
ImportBrandWorkbook ==
    /\ calls < MaxCalls
    /\ \E region \in Regions, clear \in BOOLEAN, wb \in BrandWorkbooks :
        ExcelRun([wb |-> wb, region |-> region, clear |-> clear])
    /\ calls' = calls + 1
    /\ UNCHANGED <<fnIn, fnOut, txns>>

NextBrands == ImportBrandWorkbook \/ ImportQoo10

SpecBrands == InitBrandTable /\ [][NextBrands]_vars

\* The rows of Brand with the code in the region
BrandRows(code, region) == {r \in db.brand : r.code = code /\ r.region = region}

\* C19: no import deletes or changes a Brand row, with or without --clear, and
\* after an import_excel run every brand of the region's configuration has
\* exactly one row (code, region); a row that existed keeps its names.
C19_BrandsKeptAndCreatedOnce ==
    /\ last # NoCmd => last.pre.brand \subseteq db.brand
    /\ RanExcel =>
         \A b \in RegionBrands(last.inp.region) :
             Cardinality(BrandRows(b.code, last.inp.region)) = 1

\* A run with --clear for us has deleted BrandDailySales rows of a brand that had
\* been renamed
C19_ClearOverRenamedBrand ==
    /\ RanExcel
    /\ last.inp.clear
    /\ last.inp.region = "us"
    /\ RenamedBrand \in last.pre.brand
    /\ \E r \in last.pre.brandSales : r.region = "us"
    /\ \A r \in db.brandSales : r.region # "us"

(***************************************************************************)
(* import_raw row by row: the records an importer holds in memory.  A run  *)
(* reads a file of `rows` data rows, of which every keep-th makes a        *)
(* record; `batch` is the length of the importer's list (batch, or objects *)
(* in _import_shopee_excel) and `written` the number of records            *)
(* bulk-created in the open transaction.                                   *)
(***************************************************************************)
BATCH_SIZE == 300

MaxStreamRows == 601    \* data rows of the longest file

StreamLengths == {0, 1, BATCH_SIZE, BATCH_SIZE + 1, MaxStreamRows}

KeepEvery == {1, 2}

IdleStream == [pc |-> "idle"]

InitStream ==
    /\ fnIn = NoCall
    /\ fnOut = None
    /\ db = EmptyDb
    /\ last = NoCmd
    /\ calls = 0
    /\ txns = IdleStream

\* The record a kept row makes (the rows of the file are alike)
StreamRecord(platform) ==
    [region |-> IF platform = "shopee" THEN "cn" ELSE IF platform = "qoo10" THEN "jp" ELSE "us",
     order_date |-> Day(1)]

\* The importer is entered: batch = [] (objects = [])
StreamBegin ==
    /\ txns.pc = "idle"
    /\ \E platform \in Platforms, n \in StreamLengths, k \in KeepEvery :
        txns' = [pc |-> "read", platform |-> platform, rows |-> n, keep |-> k,
                 next |-> 1, batch |-> 0, written |-> 0]
    /\ calls' = calls + 1
    /\ UNCHANGED <<fnIn, fnOut, db, last>>

\* One row is read: skipped, or its record appended to the list.  The CSV and
\* Qoo10 loops go on to test len(batch) >= BATCH_SIZE; the Shopee loops do not.
StreamRead ==
    /\ txns.pc = "read"
    /\ txns.next <= txns.rows
    /\ txns' = IF txns.next % txns.keep # 0
               THEN [txns EXCEPT !.next = @ + 1]
               ELSE [txns EXCEPT !.next = @ + 1,
                                 !.batch = @ + 1,
                                 !.pc = IF txns.platform # "shopee"
                                           /\ txns.batch + 1 >= BATCH_SIZE
                                        THEN "flush" ELSE "read"]
    /\ UNCHANGED <<fnIn, fnOut, db, last, calls>>

\* _flush_batch in the loop: bulk_create and batch.clear()
StreamFlush ==
    /\ txns.pc = "flush"
    /\ txns' = [txns EXCEPT !.written = @ + txns.batch, !.batch = 0, !.pc = "read"]
    /\ UNCHANGED <<fnIn, fnOut, db, last, calls>>

\* End of file: the rest of the list is bulk-created and the transaction commits
StreamFinish ==
    /\ txns.pc = "read"
    /\ txns.next > txns.rows
    /\ txns' = [txns EXCEPT !.written = @ + txns.batch, !.batch = 0, !.pc = "done"]
    /\ db' = IF txns.written + txns.batch = 0 THEN db
             ELSE [db EXCEPT !.orders[txns.platform] =
                      @ (+) (StreamRecord(txns.platform) :> (txns.written + txns.batch))]
    /\ UNCHANGED <<fnIn, fnOut, last, calls>>

NextStream == StreamBegin \/ StreamRead \/ StreamFlush \/ StreamFinish

SpecStream == InitStream /\ [][NextStream]_vars

Streaming == txns.pc \in {"read", "flush", "done"}

\* The rows read so far that made a record
KeptSoFar == (txns.next - 1) \div txns.keep

\* C20: at every point of an import_raw run, on every platform, the records held
\* in memory are at most BATCH_SIZE (300), the list is flushed as soon as it
\* reaches that size, and at the end of the file the rest is flushed.
C20_HeldRecordsBounded ==
    Streaming =>
        /\ txns.batch <= BATCH_SIZE
        /\ txns.pc = "read" => txns.batch < BATCH_SIZE
        /\ txns.batch + txns.written = KeptSoFar
        /\ txns.pc = "done" => txns.batch = 0

\* The same for the platforms other than Shopee
HeldRecordsBoundedButShopee ==
    (Streaming /\ txns.platform # "shopee") => C20_HeldRecordsBounded
(***************************************************************************)
(* Imports of sheets and CSV files in which rows that are skipped (a date  *)
(* cell that is empty or no date, a brand name the region does not map)    *)
(* stand before and between rows that are read.  Row i of a CSV file has   *)
(* the i-th order number.                                                  *)
(***************************************************************************)
MaxSkipRows == 3

\* Date cells of a sheet: two dates, an empty cell and an error text
SkipDateCells == {DtCell(Day(1)), DtCell(Day(2)), None, StrCell(<<"#", "R", "E", "F", "!">>)}

\* Brand cells of a brand-sales sheet: mapped in us and cn, mapped in cn only, empty
SkipBrandCells == {StrCell(KrDoctorblet), StrCell(<<"E", "O", "A">>), None}

SkipPnlSheets ==
    {PnlSheet("pnl", MonthText, NumCell(1400, 0), PnlWidth, dates) :
        dates \in SeqsUpTo(SkipDateCells, MaxSkipRows)}

SkipBrandRows ==
    {SheetRow(BrandWidth, 1 :> d @@ 2 :> b) :
        d \in {DtCell(Day(1)), DtCell(Day(2)), None}, b \in SkipBrandCells}

SkipBrandSheets ==
    {[keyword |-> KrDoctorblet, rows |-> rows] :
        rows \in SeqsUpTo(SkipBrandRows, MaxSkipRows)}

SkipWorkbooks ==
    {Workbook(s, None, None, None) : s \in SkipPnlSheets}
    \cup {Workbook(None, s, None, None) : s \in SkipBrandSheets}

\* Date fields of a CSV row, with the date each reports (None: the row is skipped)
SkipCsvDates ==
    {[cell |-> Txt(DayText(Day(1))), reported |-> Day(1)],
     [cell |-> Txt(DayText(Day(2))), reported |-> Day(2)],
     [cell |-> Txt(<<"n", "/", "a">>), reported |-> None],
     [cell |-> Empty, reported |-> None]}

SkipCsvFile(platform, choices) ==
    [i \in 1..Len(choices) |->
        IF platform = "shopify"
        THEN [paid |-> choices[i].cell, created |-> Empty,
              name |-> Txt(AmountOrderIds(platform)[i]), vendor |-> Empty,
              total |-> Txt(<<"1", "0">>), subtotal |-> Empty, lineitem |-> Txt(<<"A">>)]
        ELSE [created |-> choices[i].cell, paid |-> Empty,
              order_id |-> Txt(AmountOrderIds(platform)[i]), sku |-> Empty,
              product |-> Txt(<<"x">>), sku_subtotal |-> Txt(<<"1", "0">>),
              order_amount |-> Empty, unit_price |-> Empty, refund |-> Empty]]

\* One run of import_excel on a workbook of one such sheet
ImportSkipWorkbook ==
    /\ last = NoCmd
    /\ \E region \in {"us", "cn"}, clear \in BOOLEAN, wb \in SkipWorkbooks :
        ExcelRun([wb |-> wb, region |-> region, clear |-> clear])
    /\ calls' = calls + 1
    /\ UNCHANGED <<fnIn, fnOut, txns>>

\* One run of import_raw on such a CSV file
ImportSkipFile ==
    /\ last = NoCmd
    /\ \E platform \in CsvPlatforms, clear \in BOOLEAN,
          choices \in SeqsUpTo(SkipCsvDates, MaxSkipRows) :
        RawRun([platform |-> platform, file |-> SkipCsvFile(platform, choices),
                clear |-> clear,
                reported |-> [i \in 1..Len(choices) |-> choices[i].reported]])
    /\ calls' = calls + 1
    /\ UNCHANGED <<fnIn, fnOut, txns>>

NextSkip == ImportSkipWorkbook \/ ImportSkipFile

SpecSkip == InitIdle /\ [][NextSkip]_vars

\* The brand cell names a brand the region maps
IsMappedBrand(c, region) == c # None /\ c.t = "str" /\ c.s \in BrandKeywords(region)

HasDayRecord(T, date, region) == \E r \in T : r.date = date /\ r.region = region

\* Every dated row of the P&L sheet has its three records
PnlRowsProduced(sheet, region) ==
    \A i \in 1..Len(sheet.rows) :
        IsDated(Col(sheet.rows[i], 1)) =>
            /\ HasDayRecord(db.total, Col(sheet.rows[i], 1).d, region)
            /\ HasDayRecord(db.b2b, Col(sheet.rows[i], 1).d, region)
            /\ HasDayRecord(db.b2c, Col(sheet.rows[i], 1).d, region)

\* Every dated row of the brand-sales sheet with a mapped brand has its record
BrandRowsProduced(sheet, region) ==
    \A i \in 1..Len(sheet.rows) :
        (IsDated(Col(sheet.rows[i], 1)) /\ IsMappedBrand(Col(sheet.rows[i], 2), region)) =>
            \E r \in db.brandSales :
                /\ r.date = Col(sheet.rows[i], 1).d
                /\ r.region = region
                /\ r.brand = BrandMapGet(region, Col(sheet.rows[i], 2).s)

\* Every dated row of the CSV file has its order, and the command succeeded when
\* there is one
CsvRowsProduced(platform, reported) ==
    /\ (\E i \in 1..Len(reported) : reported[i] # None) => ~last.failed
    /\ \A i \in 1..Len(reported) :
         reported[i] # None =>
            \E r \in InsertedOrders(platform) :
                /\ OrderNumber(platform, r) = AmountOrderIds(platform)[i]
                /\ r.order_date = reported[i]

MaxScenarioRows == 3

ScenarioDates == {Day(1), Day(2), NextMonthCell.d}

\* The sequences of distinct dates, up to MaxScenarioRows of them
ScenarioDateSeqs ==
    {ds \in SeqsUpTo(ScenarioDates, MaxScenarioRows) :
        \A i, j \in 1..Len(ds) : i # j => ds[i] # ds[j]}

\* The sheet of the dates and a totals row with the given date cell
ScenarioSheet(ds, totals) ==
    PnlSheet("pnl", MonthText, NumCell(1400, 0), PnlWidth,
             [i \in 1..(Len(ds) + 1) |-> IF i <= Len(ds) THEN DtCell(ds[i]) ELSE totals])

\* One run of import_excel on a workbook of such a sheet
ImportScenarioA ==
    /\ last = NoCmd
    /\ \E region \in Regions, clear \in BOOLEAN, ds \in ScenarioDateSeqs,
          totals \in {TotalsCell, DatedTotalsCell} :
        ExcelRun([wb |-> Workbook(ScenarioSheet(ds, totals), None, None, None),
                  region |-> region, clear |-> clear,
                  reported |-> {ds[i] : i \in 1..Len(ds)}])
    /\ calls' = calls + 1
    /\ UNCHANGED <<fnIn, fnOut, txns>>

NextScenarioA == ImportScenarioA

SpecScenarioA == InitMargin /\ [][NextScenarioA]_vars

OfRegionIn(T, region) == {r \in T : r.region = region}

DatesIn(T, region) == {r.date : r \in OfRegionIn(T, region)}

\* The rows of table T of the run's region when the sheet is read
ScenarioBefore(T) ==
    IF last.inp.clear THEN {} ELSE OfRegionIn(last.pre[T], last.inp.region)

\* Table T holds, for the run's region, one record for each date of the sheet
\* besides those of the dates it held, and for the other regions what it held
OnePerDate(T) ==
    /\ DatesIn(db[T], last.inp.region)
         = {r.date : r \in ScenarioBefore(T)} \cup last.inp.reported
    /\ Cardinality(OfRegionIn(db[T], last.inp.region))
         = Cardinality(DatesIn(db[T], last.inp.region))
    /\ NotOfRegion(db[T], last.inp.region) = NotOfRegion(last.pre[T], last.inp.region)

\* C22: a P&L sheet of n rows with valid distinct dates followed by one totals
\* row produces exactly one DailySalesTotal, one DailySalesB2B and one
\* DailySalesB2C record of the region for each of the n dates, n of each on a
\* region without records, and none for the totals row.
C22_ScenarioA ==
    RanExcel =>
        /\ ~last.failed
        /\ OnePerDate("total") /\ OnePerDate("b2b") /\ OnePerDate("b2c")
        /\ (ScenarioBefore("total") = {} /\ ScenarioBefore("b2b") = {}
            /\ ScenarioBefore("b2c") = {}) =>
              /\ Cardinality(OfRegionIn(db.total, last.inp.region))
                   = Cardinality(last.inp.reported)
              /\ Cardinality(OfRegionIn(db.b2b, last.inp.region))
                   = Cardinality(last.inp.reported)
              /\ Cardinality(OfRegionIn(db.b2c, last.inp.region))
                   = Cardinality(last.inp.reported)

\* A sheet of three dated rows and a totals row that also holds a date has been
\* imported for a region without records: three records of each kind
C22_ThreeRowsAndDatedTotals ==
    /\ RanExcel
    /\ Len(last.inp.wb.pnl.rows) = 4
    /\ Col(last.inp.wb.pnl.rows[4], 1) = DatedTotalsCell
    /\ ScenarioBefore("total") = {}
    /\ last.pre.total # {}
    /\ Cardinality(OfRegionIn(db.total, last.inp.region)) = 3
    /\ Cardinality(OfRegionIn(db.b2c, last.inp.region)) = 3
(***************************************************************************)
(* Scenario B: import_raw on Shopify CSV files whose rows differ in the    *)
(* two date fields, in Name, Vendor and 'Lineitem name'.                   *)
(***************************************************************************)
MaxLineRows == 2

\* Fields of a Shopify row with the date each reports (None: none)
LinePaidCells ==
    {[cell |-> Txt(DayText(Day(1))), reported |-> Day(1)],
     [cell |-> Txt(<<"n", "/", "a">>), reported |-> None],
     [cell |-> Empty, reported |-> None]}

LineCreatedCells ==
    {[cell |-> Txt(DayText(Day(2))), reported |-> Day(2)],
     [cell |-> Empty, reported |-> None]}

LineRowChoices ==
    [paid : LinePaidCells, created : LineCreatedCells,
     name : {<<"#", "1">>, <<>>}, vendor : {<<"C", "a", "l", "o">>, <<>>},
     lineitem : {<<"A">>, <<"B">>}]

LineFile(choices) ==
    [i \in 1..Len(choices) |->
        [paid |-> choices[i].paid.cell, created |-> choices[i].created.cell,
         name |-> Txt(choices[i].name), vendor |-> Txt(choices[i].vendor),
         total |-> Txt(<<"1", "0">>), subtotal |-> Empty,
         lineitem |-> Txt(choices[i].lineitem)]]

\* One run of import_raw --platform shopify on such a file
ImportLineItemFile ==
    /\ last = NoCmd
    /\ \E clear \in BOOLEAN, choices \in SeqsUpTo(LineRowChoices, MaxLineRows) :
        RawRun([platform |-> "shopify", file |-> LineFile(choices), clear |-> clear,
                reported |-> choices])
    /\ calls' = calls + 1
    /\ UNCHANGED <<fnIn, fnOut, txns>>

NextLineItems == ImportLineItemFile

SpecLineItems == InitIdle /\ [][NextLineItems]_vars

\* The row names an order or a vendor
LineNamed(c) == c.name # <<>> \/ c.vendor # <<>>

\* One of the row's two date fields holds a date
LineHasDate(c) == c.paid.reported # None \/ c.created.reported # None

\* The date of the field the importer reads: 'Paid at' unless it is empty,
\* 'Created at' then
LineDateRead(c) == IF c.paid.cell # Empty THEN c.paid.reported ELSE c.created.reported

\* The orders the run inserted with the name, line item and vendor of row c
LineCopies(c) ==
    BagCardinality(BagFilter(last.inserted["shopify"],
                             LAMBDA r : /\ r.order_name = c.name
                                        /\ r.lineitem_name = c.lineitem
                                        /\ r.brand = c.vendor))

SameLine(a, b) == a.name = b.name /\ a.lineitem = b.lineitem /\ a.vendor = b.vendor

\* One record for each of the rows `kept` of the file, and the count of them
OneRecordPerRow(choices, kept) ==
    /\ BagCardinality(last.inserted["shopify"]) = Cardinality(kept)
    /\ RunImporter(last.pre.orders["shopify"], last.inp).count = Cardinality(kept)
    /\ \A i \in kept :
         LineCopies(choices[i]) = Cardinality({j \in kept : SameLine(choices[i], choices[j])})

\* C23: every Shopify CSV row with a parseable 'Paid at' or 'Created at' date and a
\* non-empty Name or Vendor produces exactly one ShopifyOrder record, rows that
\* share a Name included, and the count reported is the number of such rows.
C23_OneRecordPerDatedRow ==
    RanRaw =>
        OneRecordPerRow(last.inp.reported,
                        {i \in 1..Len(last.inp.reported) :
                            LineHasDate(last.inp.reported[i])
                            /\ LineNamed(last.inp.reported[i])})

\* C23, amended: every Shopify CSV row whose date field read ('Paid at' when it is
\* not empty, 'Created at' otherwise) parses and whose Name or Vendor is not
\* empty produces exactly one ShopifyOrder record, rows that share a Name
\* included, and the count reported is the number of such rows.
C23_OneRecordPerRowRead ==
    RanRaw =>
        OneRecordPerRow(last.inp.reported,
                        {i \in 1..Len(last.inp.reported) :
                            LineDateRead(last.inp.reported[i]) # None
                            /\ LineNamed(last.inp.reported[i])})

\* Two rows of one Name and different line items have been imported: two records
C23_TwoLineItemsOfOneOrder ==
    /\ RanRaw
    /\ Len(last.inp.reported) = 2
    /\ last.inp.reported[1].name = <<"#", "1">>
    /\ last.inp.reported[2].name = <<"#", "1">>
    /\ last.inp.reported[1].lineitem # last.inp.reported[2].lineitem
    /\ BagCardinality(last.inserted["shopify"]) = 2
    /\ BagCardinality(db.orders["shopify"]) = 2
(***************************************************************************)
(* Brand detection on Shopee file names '<lead><token>.<country>.shopee...'*)
(* and on Qoo10 brand cells '<token>/<rest>'.  Each token comes with the   *)
(* brand name the alias tables of import_raw give it, the token itself     *)
(* when they have none.                                                    *)
(***************************************************************************)
ShopeeBrandTokens ==
    {[token |-> <<"d", "r", "b", "l", "e", "t">>, reported |-> KrDoctorblet],
     [token |-> <<"D", "r", "B", "l", "e", "t">>, reported |-> KrDoctorblet],
     [token |-> <<"D", "O", "C", "T", "O", "R", "B", "L", "E", "T">>, reported |-> KrDoctorblet],
     [token |-> <<"e", "o", "a">>, reported |-> <<"E", "O", "A">>],
     [token |-> <<"E", "o", "a">>, reported |-> <<"E", "O", "A">>],
     [token |-> <<"n", "o", "t", "h", "i", "n", "g", "v", "i", "r", "a", "l">>, reported |-> KrNothingbetter],
     [token |-> <<"N", "o", "t", "h", "i", "n", "g", "B", "e", "t", "t", "e", "r">>, reported |-> KrNothingbetter],
     [token |-> <<"T", "e", "t", "r", "a", "c", "u", "r", "e">>, reported |-> KrTetracure],
     [token |-> <<"c", "a", "l", "o">>, reported |-> <<"C", "a", "l", "o">>],
     [token |-> <<"C", "A", "L", "O">>, reported |-> <<"C", "a", "l", "o">>],
     [token |-> <<"a", "b", "c">>, reported |-> <<"a", "b", "c">>],
     [token |-> <<"S", "k", "i", "n">>, reported |-> <<"S", "k", "i", "n">>],
     [token |-> <<"d", "r", "b", "l", "e", "t", "s">>, reported |-> <<"d", "r", "b", "l", "e", "t", "s">>]}

Qoo10BrandTokens ==
    {[token |-> <<"n", "o", "t", "h", "i", "n", "g", "b", "e", "t", "t", "e", "r">>, reported |-> KrNothingbetter],
     [token |-> <<"N", "o", "t", "h", "i", "n", "g", "V", "i", "r", "a", "l">>, reported |-> KrNothingbetter],
     [token |-> <<"d", "r", "b", "l", "e", "t">>, reported |-> KrDoctorblet],
     [token |-> <<"D", "o", "c", "t", "o", "r", "B", "l", "e", "t">>, reported |-> KrDoctorblet],
     [token |-> <<"D", "r", ".", "B", "l", "e", "t">>, reported |-> KrDoctorblet],
     [token |-> <<"E", "O", "A">>, reported |-> <<"E", "O", "A">>],
     [token |-> <<"a", "b", "c">>, reported |-> <<"a", "b", "c">>],
     [token |-> <<"D", "r", " ", "B", "l", "e", "t">>, reported |-> <<"D", "r", " ", "B", "l", "e", "t">>]}

\* What stands before the token in the file name
ShopeeLeads == {<<"_">>, <<"s", "_">>, <<>>, <<"9">>}

ShopeeTails == {<<".", "s", "g", ".", "s", "h", "o", "p", "e", "e", ".", "x">>, <<".", "v", "n", ".", "s", "h", "o", "p", "e", "e">>}

Qoo10Rests == {<<>>, <<"/", "x">>, <<" ", "/", " ", "x", "/", "y">>}

BrandFilenames ==
    {[filename |-> lead \o t.token \o tail, lead |-> lead, token |-> t.token,
      reported |-> t.reported] :
        lead \in ShopeeLeads, t \in ShopeeBrandTokens, tail \in ShopeeTails}

BrandCells ==
    {[cell |-> StrCell(pad \o t.token \o rest), token |-> t.token,
      reported |-> t.reported] :
        pad \in {<<>>, <<" ">>}, t \in Qoo10BrandTokens, rest \in Qoo10Rests}

\* A call of extract_brand_from_shopee_filename
DetectShopeeBrand ==
    /\ fnIn = NoCall
    /\ \E inp \in BrandFilenames :
        /\ fnIn' = [fn |-> "extract_brand_from_shopee_filename", inp |-> inp]
        /\ fnOut' = ExtractBrandFromShopeeFilename(inp.filename)
    /\ UNCHANGED <<db, last, calls, txns>>

\* The brand _import_qoo10_excel gives a row with the brand cell
DetectQoo10Brand ==
    /\ fnIn = NoCall
    /\ \E inp \in BrandCells :
        /\ fnIn' = [fn |-> "qoo10_brand", inp |-> inp]
        /\ fnOut' = Qoo10Brand(RawSafeStr(inp.cell))
    /\ UNCHANGED <<db, last, calls, txns>>

NextBrandDetect == DetectShopeeBrand \/ DetectQoo10Brand

SpecBrandDetect == InitIdle /\ [][NextBrandDetect]_vars

IsBrandCall == fnIn.fn \in {"extract_brand_from_shopee_filename", "qoo10_brand"}

\* The token stands right after an underscore
AfterUnderscore(inp) == inp.lead # <<>> /\ inp.lead[Len(inp.lead)] = "_"

\* C24: the brand of a Shopee file name is the display name its brand token (the
\* letters before '.<country>.shopee') maps to, whatever the token's case, and
\* the token itself when no alias matches; likewise the brand of a Qoo10 row for
\* the leading token of its brand cell.
C24_BrandOfToken == IsBrandCall => fnOut = fnIn.inp.reported

\* C24, amended: as C24 for a Shopee brand token that stands right after an
\* underscore; a file name whose token does not has the empty brand.
C24_BrandOfDelimitedToken ==
    /\ fnIn.fn = "qoo10_brand" => fnOut = fnIn.inp.reported
    /\ fnIn.fn = "extract_brand_from_shopee_filename" =>
          fnOut = IF AfterUnderscore(fnIn.inp) THEN fnIn.inp.reported ELSE <<>>

\* An alias written with capitals has been mapped, in a Shopee file name
C24_CapitalisedAliasMapped ==
    /\ fnIn.fn = "extract_brand_from_shopee_filename"
    /\ fnIn.inp.token = <<"D", "O", "C", "T", "O", "R", "B", "L", "E", "T">>
    /\ fnIn.inp.lead = <<"s", "_">>
    /\ fnOut = KrDoctorblet
(***************************************************************************)
(* Imports of raw order rows whose brand cannot be determined: RAW sheet   *)
(* rows with an empty brand cell, Shopify rows without a Vendor, TikTok    *)
(* rows whose SKU and product name match no brand, a Shopee workbook whose *)
(* file name has no brand token, Qoo10 rows without a brand cell.  Every   *)
(* row has a date and its identifiers.                                     *)
(***************************************************************************)
MaxBrandlessRows == 2

\* Brand cells of a RAW sheet row: empty, the empty text, a brand
BrandlessCells == {None, StrCell(<<>>), StrCell(KrDoctorblet)}

BrandlessSheet(channel, brands) ==
    [channel |-> channel,
     rows |-> [i \in 1..Len(brands) |->
                  SheetRow(TiktokRawWidth, 1 :> brands[i] @@ 3 :> DtCell(Day(i)))]]

\* The region whose configuration reads the channel's RAW sheet
ChannelRegion(channel) ==
    CASE channel \in {"shopify", "tiktok"} -> "us"
      [] channel = "shopee" -> "cn"
      [] channel = "qoo10" -> "jp"

\* The number of rows without a brand
Brandless(brands) ==
    Cardinality({i \in 1..Len(brands) : brands[i] \in {None, StrCell(<<>>)}})

BrandlessShopeeFilename ==
    <<"s", "h", "o", "p", "e", "e", ".", "2", "0", "2", "6", "0", "3", "0", "1">>

\* A file of n rows of platform, none with a brand
BrandlessFile(platform, n) ==
    CASE platform \in CsvPlatforms ->
            SkipCsvFile(platform, [i \in 1..n |-> [cell |-> Txt(DayText(Day(i)))]])
      [] platform = "shopee" ->
            [filename |-> BrandlessShopeeFilename, placed |-> None,
             placed_products |->
                 [i \in 1..n |-> [item_id |-> NumCell(11, 0), product |-> Txt(<<"P">>),
                                  sales |-> NumCell(5, 0), units |-> NumCell(1, 0)]],
             paid_products |-> <<>>]
      [] platform = "qoo10" ->
            [filename |-> <<"t", "r", "a", "n", "s", "a", "c", "t", "i", "o", "n", "_">>
                          \o YmdDigits(Day(1)),
             has_data_sheet |-> TRUE,
             rows |-> [i \in 1..n |-> [product_id |-> Txt(<<"9", "2">>), brand |-> None,
                                       final |-> None, amount |-> Txt(<<"5">>),
                                       refund |-> None]]]

\* One run of import_excel on a workbook of one RAW sheet
ImportBrandlessSheet ==
    /\ last = NoCmd
    /\ \E channel \in Platforms, clear \in BOOLEAN,
          brands \in SeqsUpTo(BrandlessCells, MaxBrandlessRows) :
        ExcelRun([wb |-> Workbook(None, None, BrandlessSheet(channel, brands), None),
                  region |-> ChannelRegion(channel), clear |-> clear,
                  platform |-> channel, reported |-> Brandless(brands)])
    /\ calls' = calls + 1
    /\ UNCHANGED <<fnIn, fnOut, txns>>

\* One run of import_raw on a platform file
ImportBrandlessFile ==
    /\ last = NoCmd
    /\ \E platform \in Platforms, clear \in BOOLEAN, n \in 1..MaxBrandlessRows :
        RawRun([platform |-> platform, file |-> BrandlessFile(platform, n),
                clear |-> clear, reported |-> n])
    /\ calls' = calls + 1
    /\ UNCHANGED <<fnIn, fnOut, txns>>

NextBrandless == ImportBrandlessSheet \/ ImportBrandlessFile

SpecBrandless == InitMargin /\ [][NextBrandless]_vars

\* The orders of the run's platform with the empty brand
EmptyBrandOrders ==
    BagCardinality(BagFilter(db.orders[last.inp.platform], LAMBDA r : r.brand = <<>>))

\* The loaders of the platform files load every row without a brand
FilesLoadEmptyBrand == RanRaw => ~last.failed /\ EmptyBrandOrders = last.inp.reported

\* C25: in every raw-order loader, the RAW sheets of a workbook and the platform
\* file imports, a row with a parseable date and the required identifiers whose
\* brand cannot be determined is loaded with the empty brand: it is neither
\* skipped nor an error.
C25_EmptyBrandLoaded ==
    (RanExcel \/ RanRaw) => ~last.failed /\ EmptyBrandOrders = last.inp.reported
(***************************************************************************)
(* import_excel over DailySalesB2C and BrandDailySales rows whose channel  *)
(* fields were all edited in the admin site (DailySalesB2CAdmin,           *)
(* BrandDailySalesAdmin) to a value no sheet holds.                        *)
(***************************************************************************)
B2CChannelFields(region) ==
    CASE region = "us" -> {"shopify", "amazon", "tiktok",
                           "refund_shopify", "refund_amazon", "refund_tiktok"}
      [] region = "cn" -> {"shopee", "refund_shopee"}
      [] region = "jp" -> {"qoo10", "refund_qoo10"}
      [] OTHER -> {}

BrandChannelFields(region) ==
    CASE region = "us" -> {"b2c_shopify", "b2c_amazon", "b2c_tiktok",
                           "refund_shopify", "refund_amazon", "refund_tiktok",
                           "ad_shopify", "ad_amazon", "ad_tiktok"}
      [] region = "cn" -> {"b2c_shopee", "refund_shopee", "ad_shopee"}
      [] region = "jp" -> {"b2c_qoo10", "refund_qoo10", "ad_qoo10"}
      [] OTHER -> {}

AllB2CChannelFields == UNION {B2CChannelFields(r) : r \in Regions}

AllBrandChannelFields == UNION {BrandChannelFields(r) : r \in Regions}

\* The value the admin user gave the channel fields
Edited == [coef |-> 99, scale |-> 0]

EditedRow(row, fields) == [f \in DOMAIN row |-> IF f \in fields THEN Edited ELSE row[f]]

GoodBrandSheet ==
    [keyword |-> KrDoctorblet,
     rows |-> <<SheetRow(BrandWidth, 1 :> DtCell(Day(1)) @@ 2 :> StrCell(KrDoctorblet))>>]

RECURSIVE ImportedForAll(_, _)
\* The database after import_excel of the good P&L and brand-sales sheets for
\* each of the regions
ImportedForAll(d, regions) ==
    IF regions = {} THEN d
    ELSE ImportedForAll(ExcelHandle(d, [wb |-> Workbook(GoodPnlSheet, GoodBrandSheet,
                                                        None, None),
                                        region |-> CHOOSE r \in regions : TRUE,
                                        clear |-> FALSE]).db,
                        regions \ {CHOOSE r \in regions : TRUE})

\* That database with the channel fields of every row edited
ChannelsEdited ==
    [ImportedForAll(EmptyDb, Regions) EXCEPT
        !.b2c = {EditedRow(r, AllB2CChannelFields) : r \in @},
        !.brandSales = {EditedRow(r, AllBrandChannelFields) : r \in @}]

InitChannels ==
    /\ fnIn = NoCall
    /\ fnOut = None
    /\ db \in {EmptyDb, ChannelsEdited}
    /\ last = NoCmd
    /\ calls = 0
    /\ txns = <<>>

ChannelDateSeqs == {<<Day(1)>>, <<Day(2)>>, <<Day(1), Day(2)>>}

ChannelPnlSheets ==
    {PnlSheet("pnl", MonthText, NumCell(1400, 0), PnlWidth,
              [i \in 1..Len(ds) |-> DtCell(ds[i])]) : ds \in ChannelDateSeqs}

ChannelBrandSheets ==
    {[keyword |-> KrDoctorblet,
      rows |-> [i \in 1..Len(ds) |->
                   SheetRow(BrandWidth, 1 :> DtCell(ds[i]) @@ 2 :> StrCell(KrDoctorblet))]] :
        ds \in ChannelDateSeqs}

\* One run of import_excel on a workbook of a P&L sheet, a brand-sales sheet or both
ImportChannelWorkbook ==
    /\ last = NoCmd
    /\ \E region \in Regions, clear \in BOOLEAN,
          pnl \in ChannelPnlSheets \cup {None}, brand \in ChannelBrandSheets \cup {None} :
        /\ pnl # None \/ brand # None
        /\ ExcelRun([wb |-> Workbook(pnl, brand, None, None),
                     region |-> region, clear |-> clear])
    /\ calls' = calls + 1
    /\ UNCHANGED <<fnIn, fnOut, txns>>

NextChannels == ImportChannelWorkbook

SpecChannels == InitChannels /\ [][NextChannels]_vars

\* The row of table T with the key of r when the sheets are read (none: {})
RowBefore(T, r, key) ==
    {p \in last.pre[T] : /\ \A f \in key : p[f] = r[f]
                         /\ ~(last.inp.clear /\ p.region = last.inp.region)}

\* The value of channel field f of row r before the run: 0 for a row it created
FieldBefore(T, r, key, f) ==
    IF RowBefore(T, r, key) = {} THEN Zero ELSE (CHOOSE p \in RowBefore(T, r, key) : TRUE)[f]

\* In table T the rows of the run's region have the region's channel fields as
\* the sheet gives them and the other channel fields as before; the rows of the
\* other regions are as before
ChannelsByRegion(T, key, mine, all) ==
    /\ \A r \in db[T] :
         r.region = last.inp.region =>
            /\ \A f \in all \ mine : r[f] = FieldBefore(T, r, key, f)
            /\ (r \notin last.pre[T]) => \A f \in mine : r[f] # Edited
    /\ NotOfRegion(db[T], last.inp.region) = NotOfRegion(last.pre[T], last.inp.region)

\* C26: an import for region r writes, of the channel fields of DailySalesB2C and
\* BrandDailySales, only r's (us: shopify, amazon, tiktok and their refund and ad
\* fields; cn: shopee; jp: qoo10; global: none): on the update of an existing row
\* every other region's channel fields keep their values, on a new row they are
\* zero, and rows of other regions are unchanged.
C26_ChannelsByRegion ==
    (RanExcel /\ ~last.failed) =>
        /\ ChannelsByRegion("b2c", {"date", "region"},
                            B2CChannelFields(last.inp.region), AllB2CChannelFields)
        /\ ChannelsByRegion("brandSales", {"date", "brand", "region"},
                            BrandChannelFields(last.inp.region), AllBrandChannelFields)

\* An import for cn has updated an edited DailySalesB2C row and an edited
\* BrandDailySales row: shopee written, shopify kept
C26_UpdatedEditedRows ==
    /\ RanExcel
    /\ ~last.inp.clear
    /\ last.inp.region = "cn"
    /\ last.pre = ChannelsEdited
    /\ \E r \in db.b2c :
         r.region = "cn" /\ r.date = Day(1) /\ r.shopee # Edited /\ r.shopify = Edited
    /\ \E r \in db.brandSales :
         r.region = "cn" /\ r.date = Day(1) /\ r.b2c_shopee # Edited
         /\ r.b2c_shopify = Edited
(***************************************************************************)
(* import_raw --platform shopee on workbooks of two brands, named with one *)
(* of two dates or with none.                                              *)
(***************************************************************************)
\* File names with the date and the brand each reports
ShopeeNamed ==
    {[filename |-> <<"_", "e", "o", "a", ".", "s", "g", ".", "s", "h", "o", "p", "e", "e", ".">>
                   \o sfx.text,
      date |-> sfx.date, brand |-> <<"E", "O", "A">>] :
        sfx \in {[text |-> YmdDigits(Day(1)), date |-> Day(1)],
                 [text |-> YmdDigits(Day(2)), date |-> Day(2)],
                 [text |-> <<"x">>, date |-> None]}}
    \cup {[filename |-> <<"_", "d", "r", "b", "l", "e", "t", ".", "s", "g", ".",
                          "s", "h", "o", "p", "e", "e", ".">> \o YmdDigits(Day(1)),
           date |-> Day(1), brand |-> KrDoctorblet]}

\* The 'Placed Order' data row dated 01-03-2026, or none
ShopeeNamedPlaced ==
    {None,
     [date |-> Txt(<<"0", "1", "-", "0", "3", "-", "2", "0", "2", "6">>),
      sales |-> NumCell(10, 0), orders |-> NumCell(1, 0), refunded |-> None]}

ShopeeNamedProducts ==
    {<<>>, <<[item_id |-> NumCell(11, 0), product |-> Txt(<<"P">>),
              sales |-> NumCell(5, 0), units |-> NumCell(1, 0)]>>}

\* One run of import_raw --platform shopee on such a workbook
ImportShopeeNamed ==
    /\ calls < MaxCalls
    /\ \E name \in ShopeeNamed, placed \in ShopeeNamedPlaced,
          products \in ShopeeNamedProducts, clear \in BOOLEAN :
        RawRun([platform |-> "shopee",
                file |-> [filename |-> name.filename, placed |-> placed,
                          placed_products |-> products, paid_products |-> <<>>],
                clear |-> clear, file_date |-> name.date, brand |-> name.brand])
    /\ calls' = calls + 1
    /\ UNCHANGED <<fnIn, fnOut, txns>>

NextShopeeNamed == ImportShopeeNamed

SpecShopeeNamed == InitIdle /\ [][NextShopeeNamed]_vars

\* The ShopeeOrder rows of region cn dated d before the run
ShopeeOfDate(tbl, d) == BagFilter(tbl, LAMBDA r : r.region = "cn" /\ r.order_date = d)

\* C27: a Shopee import with clear_date and a date in the file name deletes every
\* ShopeeOrder row of region cn with that order date, whatever its brand, and
\* no other row, so that the rows of that date left are those of the file; an
\* import without clear_date or without a date in the file name deletes nothing,
\* even when it inserts rows.
C27_ShopeeReplaceByDate ==
    RanRaw =>
        /\ (last.inp.clear /\ last.inp.file_date # None) =>
              /\ last.deleted["shopee"]
                   = ShopeeOfDate(last.pre.orders["shopee"], last.inp.file_date)
              /\ ShopeeOfDate(db.orders["shopee"], last.inp.file_date)
                   = last.inserted["shopee"]
              /\ \A r \in BagToSet(ShopeeOfDate(db.orders["shopee"], last.inp.file_date)) :
                    r.brand = last.inp.brand
        /\ (~last.inp.clear \/ last.inp.file_date = None) =>
              /\ last.deleted["shopee"] = EmptyBag
              /\ db.orders["shopee"] = last.pre.orders["shopee"] (+) last.inserted["shopee"]

\* The workbook of one brand has been imported with clear_date over rows of
\* another brand of the same date
C27_OtherBrandReplaced ==
    /\ RanRaw
    /\ last.inp.clear
    /\ last.inp.brand = KrDoctorblet
    /\ \E r \in BagToSet(last.pre.orders["shopee"]) :
         r.brand = <<"E", "O", "A">> /\ r.order_date = last.inp.file_date
    /\ last.inserted["shopee"] # EmptyBag
    /\ \A r \in BagToSet(db.orders["shopee"]) :
         r.order_date = Day(1) => r.brand = KrDoctorblet

\* A workbook without a date in its name has been imported with clear_date over
\* rows of the date its 'Placed Order' sheet gives: rows inserted, none deleted
ShopeeNoFileDateNothingDeleted ==
    /\ RanRaw
    /\ last.inp.clear
    /\ last.inp.file_date = None
    /\ last.inserted["shopee"] # EmptyBag
    /\ ShopeeOfDate(last.pre.orders["shopee"], Day(1)) # EmptyBag
(***************************************************************************)
(* import_excel on workbooks of one P&L sheet, whose names differ in the   *)
(* month token and whose rate cells (row 1, column 2) differ.              *)
(***************************************************************************)
\* Month tokens with the month each stands for (1 for a token that is no month)
MonthTokens ==
    {[text |-> <<"1", KrMonth>>, month |-> 1],
     [text |-> <<"3", KrMonth>>, month |-> 3],
     [text |-> <<"1", "2", KrMonth>>, month |-> 12],
     [text |-> <<"1", "3", KrMonth>>, month |-> 1],
     [text |-> <<"0", "3", KrMonth>>, month |-> 1],
     [text |-> <<"3", KrMonth, " ">>, month |-> 1],
     [text |-> <<KrMonth>>, month |-> 1],
     [text |-> <<"x">>, month |-> 1]}

\* Rate cells with the rate each stores
RateCells ==
    {[cell |-> NumCell(1400, 0), reported |-> [coef |-> 1400, scale |-> 0]],
     [cell |-> NumCell(0, 0), reported |-> [coef |-> 0, scale |-> 0]],
     [cell |-> None, reported |-> [coef |-> 1446, scale |-> 0]],
     [cell |-> StrCell(<<>>), reported |-> [coef |-> 1446, scale |-> 0]],
     [cell |-> StrCell(DivZeroText), reported |-> [coef |-> 1446, scale |-> 0]]}

RateSheet(token, rate) == PnlSheet("pnl", token, rate, PnlWidth, <<DtCell(Day(1))>>)

\* The database after import_excel of a sheet of January and one of March for us
\* and one of March for cn, each with the rate 7
RatesSeeded ==
    ExcelHandle(
        ExcelHandle(
            ExcelHandle(EmptyDb,
                        [wb |-> Workbook(RateSheet(<<"1", KrMonth>>, NumCell(7, 0)),
                                         None, None, None),
                         region |-> "us", clear |-> FALSE]).db,
            [wb |-> Workbook(RateSheet(<<"3", KrMonth>>, NumCell(7, 0)), None, None, None),
             region |-> "us", clear |-> FALSE]).db,
        [wb |-> Workbook(RateSheet(<<"3", KrMonth>>, NumCell(7, 0)), None, None, None),
         region |-> "cn", clear |-> FALSE]).db

InitRates ==
    /\ fnIn = NoCall
    /\ fnOut = None
    /\ db \in {EmptyDb, RatesSeeded}
    /\ last = NoCmd
    /\ calls = 0
    /\ txns = <<>>

\* One run of import_excel on a workbook of one P&L sheet
ImportRateWorkbook ==
    /\ last = NoCmd
    /\ \E region \in {"us", "cn"}, clear \in BOOLEAN, token \in MonthTokens,
          rate \in RateCells :
        ExcelRun([wb |-> Workbook(RateSheet(token.text, rate.cell), None, None, None),
                  region |-> region, clear |-> clear,
                  month |-> token.month, reported |-> rate.reported])
    /\ calls' = calls + 1
    /\ UNCHANGED <<fnIn, fnOut, txns>>

NextRates == ImportRateWorkbook

SpecRates == InitRates /\ [][NextRates]_vars

\* The ExchangeRate row has the key of the run's region, 2026 and the sheet's month
IsRateOfRun(r) ==
    r.region = last.inp.region /\ r.year = 2026 /\ r.month = last.inp.month

\* C28: a P&L sheet import upserts one ExchangeRate row, keyed by the region,
\* 2026 and the month of the sheet's token ('1월'..'12월': 1..12, any other
\* token: 1, so that it overwrites the January rate), and changes no other
\* ExchangeRate row; an empty rate cell stores 1446.
C28_OneRatePerSheet ==
    (RanExcel /\ ~last.failed) =>
        /\ Cardinality({r \in db.rate : IsRateOfRun(r)}) = 1
        /\ \A r \in db.rate : IsRateOfRun(r) => DecEq(r.rate, last.inp.reported)
        /\ {r \in db.rate : ~IsRateOfRun(r)} = {r \in last.pre.rate : ~IsRateOfRun(r)}

\* A sheet whose token is no month and whose rate cell is empty has been
\* imported over the rates of January and March: January's is now 1446
C28_UnknownTokenOverwritesJanuary ==
    /\ RanExcel
    /\ last.inp.wb.pnl.month_str = <<"x">>
    /\ last.inp.wb.pnl.rate = None
    /\ last.inp.region = "us"
    /\ Cardinality({r \in last.pre.rate : r.region = "us"}) = 2
    /\ \E r \in last.pre.rate : r.region = "us" /\ r.month = 1 /\ r.rate.coef = 7
    /\ \E r \in db.rate : r.region = "us" /\ r.month = 1 /\ r.rate.coef = 1446
    /\ \E r \in db.rate : r.region = "us" /\ r.month = 3 /\ r.rate.coef = 7
(***************************************************************************)
(* import_excel --region us on workbooks of a tax sheet whose two header   *)
(* columns fall in one month or in two, over an empty TaxByState table or  *)
(* one that holds 7 for CA in March.                                       *)
(***************************************************************************)
MaxTaxMonthRows == 2

TaxMonthAmounts == {NumCell(0, 0), NumCell(5, 0), NumCell(7, 0), None}

TaxMonthRows ==
    {TaxRow(s, <<a, b>>) :
        s \in {StrCell(<<"C", "A">>), StrCell(<<"N", "Y">>)},
        a \in TaxMonthAmounts, b \in TaxMonthAmounts}

TaxMonthWorkbooks ==
    {Workbook(None, None, None, TaxSheet(h, rows)) :
        h \in TaxHeaders, rows \in SeqsUpTo(TaxMonthRows, MaxTaxMonthRows)}

\* One run of import_excel --region us on such a workbook
ImportTaxMonthWorkbook ==
    /\ last = NoCmd
    /\ \E clear \in BOOLEAN, wb \in TaxMonthWorkbooks :
        ExcelRun([wb |-> wb, region |-> "us", clear |-> clear])
    /\ calls' = calls + 1
    /\ UNCHANGED <<fnIn, fnOut, txns>>

NextTaxMonth == ImportTaxMonthWorkbook

SpecTaxMonth == InitTax /\ [][NextTaxMonth]_vars

\* The non-zero cells of the sheet that fall on the key
TaxCellsOfKey(sheet, key, region) ==
    {c \in TaxNonZeroCells(sheet) : TaxKeyOf(sheet, c, region) = key}

\* The last of the cells, by row and then by column
LastTaxCell(cells) ==
    CHOOSE c \in cells :
        \A d \in cells : d[1] < c[1] \/ (d[1] = c[1] /\ d[2] <= c[2])

TaxKeys(T) ==
    {[state_code |-> r.state_code, year |-> r.year, month |-> r.month,
      region |-> r.region] : r \in T}

\* The amounts TaxByState holds for the key
TaxAmountsOfKey(T, key) == {r.amount : r \in {x \in T : SameTaxKey(x, key)}}

\* C29: a tax import without --clear deletes and zeroes no TaxByState row: the
\* amount of a key whose cells in the sheet are all zero or empty stays as it
\* was; and the amount of a key on which several non-zero cells fall (header
\* columns of one year and month) is that of the last of them, not their sum.
C29_TaxKeptAndLastCellWins ==
    (RanTaxSheet /\ ~last.inp.clear) =>
        /\ \A key \in TaxKeys(last.pre.tax) :
             TaxCellsOfKey(last.inp.wb.tax, key, last.inp.region) = {} =>
                TaxAmountsOfKey(db.tax, key) = TaxAmountsOfKey(last.pre.tax, key)
        /\ \A key \in TaxKeys(last.pre.tax) \cup TaxKeys(db.tax) :
             TaxCellsOfKey(last.inp.wb.tax, key, last.inp.region) # {} =>
                TaxAmountsOfKey(db.tax, key)
                  = {TaxAmountOf(last.inp.wb.tax,
                                 LastTaxCell(TaxCellsOfKey(last.inp.wb.tax, key,
                                                           last.inp.region))).amount}
        /\ \A c \in TaxNonZeroCells(last.inp.wb.tax) :
             TaxKeyOf(last.inp.wb.tax, c, last.inp.region) \in TaxKeys(db.tax)

\* A sheet with 7 and 5 for NY in two March columns, and a zero and an empty
\* cell for CA, has been imported over the stored 7 for CA: NY is 5, the last
\* column's, and CA is still 7
C29_TwoColumnsOfOneMonth ==
    /\ RanTaxSheet
    /\ ~last.inp.clear
    /\ last.pre = TaxSeeded
    /\ last.inp.wb.tax.header = <<DtCell(Day(1)), DtCell(Day(2))>>
    /\ Len(last.inp.wb.tax.rows) = 2
    /\ last.inp.wb.tax.rows[1] = TaxRow(StrCell(<<"N", "Y">>), <<NumCell(7, 0), NumCell(5, 0)>>)
    /\ last.inp.wb.tax.rows[2] = TaxRow(StrCell(<<"C", "A">>), <<NumCell(0, 0), None>>)
    /\ Cardinality(db.tax) = 2
    /\ \E r \in db.tax : r.state_code = <<"N", "Y">> /\ r.month = 3 /\ r.amount.coef = 5
    /\ \E r \in db.tax : r.state_code = <<"C", "A">> /\ r.month = 3 /\ r.amount.coef = 7
(***************************************************************************)
(* import_raw over a database in which every table holds rows: the         *)
(* aggregate tables those of an import_excel for each region, TaxByState   *)
(* the row of a tax sheet, and each order table the rows of a platform     *)
(* file together with rows whose region was edited in the admin site       *)
(* (ShopifyOrderAdmin, TiktokOrderAdmin, ShopeeOrderAdmin, Qoo10OrderAdmin).*)
(***************************************************************************)
\* The region each importer of import_raw writes and filters its deletes by
FixedRegion(platform) ==
    CASE platform = "shopify" -> "us"
      [] platform = "tiktok" -> "us"
      [] platform = "shopee" -> "cn"
      [] platform = "qoo10" -> "jp"

\* The rows import_raw loads from a file of two rows of the platform
FrameLoaded(platform) ==
    RawHandle(EmptyDb, [platform |-> platform, file |-> BrandlessFile(platform, 2),
                        clear |-> FALSE]).db.orders[platform]

\* Those rows with the region set to each of the other regions
FrameEdited(platform) ==
    SetToBag({[r EXCEPT !.region = g] :
                 r \in BagToSet(FrameLoaded(platform)),
                 g \in Regions \ {FixedRegion(platform)}})

FrameSeeded ==
    [ImportedForAll(EmptyDb, Regions) EXCEPT
        !.tax = TaxSeeded.tax,
        !.orders = [p \in Platforms |-> FrameLoaded(p) (+) FrameEdited(p)]]

InitFrame ==
    /\ fnIn = NoCall
    /\ fnOut = None
    /\ db \in {EmptyDb, FrameSeeded}
    /\ last = NoCmd
    /\ calls = 0
    /\ txns = <<>>

\* One run of import_raw on a platform file
ImportFrameFile ==
    /\ last = NoCmd
    /\ \E platform \in Platforms, clear \in BOOLEAN :
        \E file \in RawFiles(platform) :
            RawRun([platform |-> platform, file |-> file, clear |-> clear])
    /\ calls' = calls + 1
    /\ UNCHANGED <<fnIn, fnOut, txns>>

NextFrame == ImportFrameFile

SpecFrame == InitFrame /\ [][NextFrame]_vars

AggregateTables == {"total", "b2b", "b2c", "brandSales", "tax", "rate", "brand"}

\* The rows of an order table of another region than the given one
NotOfFixedRegion(tbl, region) == BagFilter(tbl, LAMBDA r : r.region # region)

\* C30: import_raw for platform p inserts and deletes rows only in p's order
\* table and only rows of p's fixed region (shopify and tiktok: us, shopee: cn,
\* qoo10: jp): the rows of other regions in that table, every other order
\* table, the aggregate tables, Brand, TaxByState and ExchangeRate are as before.
C30_RawFrame ==
    RanRaw =>
        /\ \A q \in Platforms \ {last.inp.platform} :
             db.orders[q] = last.pre.orders[q]
        /\ \A T \in AggregateTables : db[T] = last.pre[T]
        /\ NotOfFixedRegion(db.orders[last.inp.platform], FixedRegion(last.inp.platform))
             = NotOfFixedRegion(last.pre.orders[last.inp.platform],
                                FixedRegion(last.inp.platform))
        /\ \A r \in BagToSet(db.orders[last.inp.platform]) :
             CopiesIn(r, db.orders[last.inp.platform])
               # CopiesIn(r, last.pre.orders[last.inp.platform])
                 => r.region = FixedRegion(last.inp.platform)
        /\ \A r \in BagToSet(last.pre.orders[last.inp.platform]) :
             CopiesIn(r, db.orders[last.inp.platform])
               # CopiesIn(r, last.pre.orders[last.inp.platform])
                 => r.region = FixedRegion(last.inp.platform)

\* A Qoo10 file of the first of March has been imported with --clear-date over
\* the seeded database: rows of jp of that date were deleted and rows inserted,
\* the rows of us, cn and global of that date are still there
C30_ReplacedBesideOtherRegions ==
    /\ RanRaw
    /\ last.inp.platform = "qoo10"
    /\ last.inp.clear
    /\ last.pre = FrameSeeded
    /\ \A T \in AggregateTables : last.pre[T] # {}
    /\ \A q \in Platforms : \A g \in Regions :
         \E r \in BagToSet(last.pre.orders[q]) : r.region = g
    /\ last.deleted["qoo10"] # EmptyBag
    /\ last.inserted["qoo10"] # EmptyBag
    /\ db.orders["qoo10"] # last.pre.orders["qoo10"]
    /\ \A g \in Regions \ {"jp"} :
         \E r \in BagToSet(db.orders["qoo10"]) : r.region = g /\ r.order_date = Day(1)

====
